---- MODULE Spec2Model ----
(***************************************************************************)
(* A model of the forecast extraction and trend classification of the      *)
(* CBAC scrapers (src/scraper).                                            *)
(*                                                                         *)
(* Text.  A text is a sequence of lines, a line a sequence of tokens, a    *)
(* token a pair <<word, case>>: the word in lower-case letters and the     *)
(* case it is written in ("U" upper, "T" title, "L" lower, "-" for digits, *)
(* punctuation and glyphs, which have no case).  Tokens of a line are      *)
(* separated by single blanks and a line carries no leading or trailing    *)
(* blanks, so str.strip() of a line is the line; "#" is written directly   *)
(* before the token after it and ":", "." and the inch sign directly       *)
(* after the token before them ("#1:").  A substring test                  *)
(* ("X" in s) is a test for a run of tokens; that a keyword lies inside a  *)
(* longer word ("slab" in "slabs") is recorded in ProperPrefix,            *)
(* ProperSuffix and ProperInfix.                                           *)
(***************************************************************************)
EXTENDS Integers, Sequences, FiniteSets, TLC

VARIABLES
    pc,                   \* position of the running operation
    entry,                \* the entry point that was called
    lines,                \* parse_page_text: text.split('\n')
    zone,                 \* the zone argument
    i,                    \* parse_page_text: 1-based index of the danger scan
    in_danger_section,    \* parse_page_text, line 150
    danger_section_done,  \* parse_page_text, line 151
    danger_alpine,        \* parse_page_text, line 140
    danger_treeline,      \* parse_page_text, line 141
    danger_btl,           \* parse_page_text, line 142
    args,                 \* the arguments of a pure function under check
    result,               \* what the entry point returned
    store                 \* the tables of the database save_forecast writes to

vars == <<pc, entry, lines, zone, i, in_danger_section, danger_section_done,
          danger_alpine, danger_treeline, danger_btl, args, result, store>>

\* the tables forecasts, avalanche_problems and weather_forecasts, their rows in
\* the order they were inserted
EmptyStore == [forecasts |-> <<>>, avalanche_problems |-> <<>>, weather_forecasts |-> <<>>]

\* Python's None, and an Optional value that is not None
None == <<>>
Some(v) == <<v>>
ValueOf(o) == o[1]

-----------------------------------------------------------------------------
(* Tokens and case *)

U(w) == <<w, "U">>
T(w) == <<w, "T">>
L(w) == <<w, "L">>
S(w) == <<w, "-">>

\* the glyphs of the page, one character each
UpArrow   == S("up-arrow")
DownArrow == S("down-arrow")
EnDash    == S("en-dash")
Hyphen    == S("-")
Glyphs    == {UpArrow, DownArrow, EnDash}

Upper(tok) == IF tok[2] = "-" THEN tok ELSE <<tok[1], "U">>
Lower(tok) == IF tok[2] = "-" THEN tok ELSE <<tok[1], "L">>
Title(tok) == IF tok[2] = "-" THEN tok ELSE <<tok[1], "T">>

LineUpper(line) == [k \in DOMAIN line |-> Upper(line[k])]
LineLower(line) == [k \in DOMAIN line |-> Lower(line[k])]
LineTitle(line) == [k \in DOMAIN line |-> Title(line[k])]

TokLen(tok) == IF tok \in Glyphs THEN 1 ELSE Len(tok[1])
\* a token with a third part is a text of that many characters that begins as the
\* word does: what s[:n] left of a word, and a long run of text
CharLen(tok) == IF Len(tok) = 3 THEN tok[3] ELSE TokLen(tok)

\* the blanks between token a and the token b after it
Gap(a, b) ==
    IF a = S("#") \/ b \in {S(":"), S("."), S("!"), S("\""), S("T07:00:00Z"), S("T13:00:00Z")}
    THEN 0 ELSE 1

RECURSIVE SumLen(_, _)
SumLen(line, k) ==
    IF k = 0 THEN 0
    ELSE CharLen(line[k]) + SumLen(line, k - 1)
         + (IF k > 1 THEN Gap(line[k - 1], line[k]) ELSE 0)

\* len(line): the characters of the tokens and the blanks between them
LineLen(line) == SumLen(line, Len(line))

\* keyword kw is a proper prefix / suffix / inner part of word w
ProperPrefix ==
    { <<"problem", "problems">>, <<"slab", "slabs">>, <<"mod", "moderate">>,
      <<"cons", "considerable">>, <<"extr", "extreme">>,
      <<"stabiliz", "stabilizing">>, <<"elevation", "elevations">>,
      <<"aspect", "aspects">>, <<"size", "sized">>, <<"wind", "winds">>,
      <<"in", "inches">>, <<"in", "inch">>, <<"inch", "inches">>,
      <<"f", "forecast">>, <<"f", "for">>, <<"f", "full">>, <<"large", "larger">>,
      <<"danger", "dangerous">>, <<"in", "increasing">>, <<"load", "loading">>,
      <<"high", "highs">> }
ProperSuffix ==
    { <<"f", "of">>, <<"low", "below">>, <<"line", "treeline">>,
      <<"likely", "unlikely">> }
ProperInfix ==
    { <<"in", "wind">>, <<"in", "winds">>, <<"low", "slowly">> }

PrefixOf(kw, tok) == kw[2] = tok[2] /\ (kw[1] = tok[1] \/ <<kw[1], tok[1]>> \in ProperPrefix)
SuffixOf(kw, tok) == kw[2] = tok[2] /\ (kw[1] = tok[1] \/ <<kw[1], tok[1]>> \in ProperSuffix)
InWord(kw, tok) ==
    \/ PrefixOf(kw, tok)
    \/ SuffixOf(kw, tok)
    \/ kw[2] = tok[2] /\ <<kw[1], tok[1]>> \in ProperInfix

\* pat occurs in line at token k (Python: pat in line)
OccursAt(pat, line, k) ==
    /\ k >= 1
    /\ k + Len(pat) - 1 <= Len(line)
    /\ IF Len(pat) = 1
       THEN InWord(pat[1], line[k])
       ELSE /\ SuffixOf(pat[1], line[k])
            /\ PrefixOf(pat[Len(pat)], line[k + Len(pat) - 1])
            /\ \A m \in 2..(Len(pat) - 1) : pat[m] = line[k + m - 1]

Contains(line, pat) == \E k \in 1..Len(line) : OccursAt(pat, line, k)

-----------------------------------------------------------------------------
(* Numbers *)

Digits == {"0", "1", "2", "3", "4", "5", "6", "7", "8", "9"}

DigitVal(d) ==
    CASE d = "0" -> 0 [] d = "1" -> 1 [] d = "2" -> 2 [] d = "3" -> 3
      [] d = "4" -> 4 [] d = "5" -> 5 [] d = "6" -> 6 [] d = "7" -> 7
      [] d = "8" -> 8 [] d = "9" -> 9

\* the decimal digits of the number tokens of the vocabulary
NumberDigits(w) ==
    CASE w \in Digits -> <<w>>
      [] w = "10" -> <<"1", "0">>
      [] w = "12" -> <<"1", "2">>
      [] w = "25" -> <<"2", "5">>
      [] w = "35" -> <<"3", "5">>
      [] OTHER -> <<>>

IsNumber(tok) == tok[2] = "-" /\ NumberDigits(tok[1]) # <<>>
IsDigit(tok)  == tok[2] = "-" /\ tok[1] \in Digits
IsDash(tok)   == tok \in {Hyphen, EnDash}
\* \w+ : a word or a number
IsWord(tok)   == tok[2] # "-" \/ IsNumber(tok)

RECURSIVE DigitsValue(_, _)
DigitsValue(ds, k) == IF k = 0 THEN 0 ELSE 10 * DigitsValue(ds, k - 1) + DigitVal(ds[k])

\* int(s) of a number token
IntOf(tok) == DigitsValue(NumberDigits(tok[1]), Len(NumberDigits(tok[1])))

Min(a, b) == IF a < b THEN a ELSE b
Max(a, b) == IF a > b THEN a ELSE b

-----------------------------------------------------------------------------
(* cbac_selenium_scraper.py *)

FORECAST_ZONES == {"northwest", "southeast"}

\* DANGER_MAP in dict order
DANGER_MAP ==
    << <<"low", 1>>, <<"moderate", 2>>, <<"mod", 2>>, <<"considerable", 3>>,
       <<"cons", 3>>, <<"high", 4>>, <<"extreme", 5>>, <<"extr", 5>> >>

\* re.match(r'^\d\s*[-–]\s*\w+', line)
RatingMatch(line) ==
    /\ Len(line) >= 3
    /\ IsDigit(line[1])
    /\ IsDash(line[2])
    /\ IsWord(line[3])

\* the places of re.search(r'(\d)\s*[-–]\s*\w+', text): a number token (its last
\* digit is the group), a dash, a word
RatingAt(line, k) ==
    /\ k + 2 <= Len(line)
    /\ IsNumber(line[k])
    /\ IsDash(line[k + 1])
    /\ IsWord(line[k + 2])

LastDigit(tok) == DigitVal(NumberDigits(tok[1])[Len(NumberDigits(tok[1]))])
FirstDigit(tok) == DigitVal(NumberDigits(tok[1])[1])

parse_danger_level(text) ==
    LET hits  == {k \in 1..Len(text) : RatingAt(text, k)}
        words == {n \in 1..Len(DANGER_MAP) :
                     Contains(LineLower(text), <<L(DANGER_MAP[n][1])>>)}
    IN  IF hits # {}
        THEN LastDigit(text[CHOOSE k \in hits : \A h \in hits : k <= h])
        ELSE IF words # {}
        THEN DANGER_MAP[CHOOSE n \in words : \A m \in words : n <= m][2]
        ELSE IF text # <<>> /\ IsNumber(text[1])
        THEN FirstDigit(text[1])
        ELSE 2

\* LookAhead with the last rating line of the rest of the text taken, not the first
\* of the next 2 lines
LookAheadLastMatch(ls, at, current) ==
    LET js == {j \in (at + 1)..Len(ls) : RatingMatch(ls[j])}
    IN  IF js = {}
        THEN current
        ELSE parse_danger_level(ls[CHOOSE j \in js : \A h \in js : j >= h])

\* LookAhead over the next line only
LookAheadOneLine(ls, at, current) ==
    IF at + 1 <= Len(ls) /\ RatingMatch(ls[at + 1])
    THEN parse_danger_level(ls[at + 1])
    ELSE current

\* the look-ahead of lines 172-176: the first of the next 2 lines that is a rating
\* line gives the level, none leaves the current value
LookAhead(ls, at, current) ==
    LET js == {j \in (at + 1)..Min(at + 2, Len(ls)) : RatingMatch(ls[j])}
    IN  IF js = {}
        THEN current
        ELSE parse_danger_level(ls[CHOOSE j \in js : \A h \in js : j <= h])

IsAboveMarker(line) ==
    /\ Contains(LineLower(line), <<L("above"), L("treeline")>>)
    /\ Contains(line, <<UpArrow>>)
IsNearMarker(line) ==
    /\ Contains(LineLower(line), <<L("near"), L("treeline")>>)
    /\ ~Contains(LineLower(line), <<L("above")>>)
    /\ ~Contains(LineLower(line), <<L("below")>>)
IsBelowMarker(line) ==
    /\ Contains(LineLower(line), <<L("below"), L("treeline")>>)
    /\ Contains(line, <<DownArrow>>)

IsDangerHeading(line) == Contains(LineUpper(line), <<U("avalanche"), U("danger")>>)
IsClosingHeading(line) ==
    \/ Contains(LineUpper(line), <<U("danger"), U("scale")>>)
    \/ Contains(LineUpper(line), <<U("avalanche"), U("problems")>>)


\* parse_page_text, lines 247, 264, 267, 269, 278
DetailWindow   == 50
DetailFirstLen == 50
DetailMoreLen  == 20
DetailEndLen   == 10
DetailCap      == 1000

\* parse_page_text, lines 287, 288, 291, 292
BottomWindow     == 10
BottomFirstLen   == 30
BottomMoreWindow == 5
BottomMoreLen    == 20
\* parse_page_text, lines 304, 309
DiscussionWindow  == 30
DiscussionLineLen == 20
\* parse_page_text, lines 320, 327, 333
WeatherWindow     == 40
WeatherLineLen    == 10
WeatherSummaryCap == 500
\* parse_page_text, lines 140-142
DefaultAlpine        == 2
DefaultTreeline      == 2
DefaultBelowTreeline == 1

\* get_forecast_url(zone): the zone's path, or the zone itself when it has none
ZonePath(z) ==
    CASE z = "northwest" -> "northwest-mountains"
      [] z = "southeast" -> "southeast-mountains"
      [] OTHER -> z
get_forecast_url(z) == <<"https://cbavalanchecenter.org/forecasts/#", ZonePath(z)>>

Aspects == {"N", "NE", "E", "SE", "S", "SW", "W", "NW"}
Elevations == {"alpine", "treeline", "below_treeline"}

\* a dict with key k set to v: the key is added when it is not there
DictSet(d, k, v) == [x \in (DOMAIN d) \cup {k} |-> IF x = k THEN v ELSE d[x]]

selenium_create_empty_rose ==
    [a \in Aspects |-> [e \in Elevations |-> FALSE]]

\* problem_pattern, re.compile(r'PROBLEM\s*#?(\d+)[:\s]*(.+)?', re.IGNORECASE):
\* the place of the number token, 0 when the line does not match
ProblemNumberAt(line) ==
    IF Len(line) >= 2 /\ Lower(line[1]) = L("problem")
    THEN IF IsNumber(line[2]) THEN 2
         ELSE IF line[2] = S("#") /\ Len(line) >= 3 /\ IsNumber(line[3]) THEN 3
         ELSE 0
    ELSE 0

ProblemMatch(line) == ProblemNumberAt(line) # 0

RECURSIVE SkipColons(_, _)
SkipColons(line, k) ==
    IF k <= Len(line) /\ line[k] = S(":") THEN SkipColons(line, k + 1) ELSE k

\* match.group(2) or ""
ProblemTypeText(line) ==
    SubSeq(line, SkipColons(line, ProblemNumberAt(line) + 1), Len(line))

TypeWords == {"slab", "loose", "cornice", "glide"}

\* lines 206-211: the type text of the next 4 lines when the marker has none
LookAheadType(ls, at) ==
    LET js == {j \in (at + 1)..Min(at + 4, Len(ls)) :
                  /\ ls[j] # <<>>
                  /\ ~Contains(LineUpper(ls[j]), <<U("problem"), U("type")>>)
                  /\ \E w \in TypeWords : Contains(LineLower(ls[j]), <<L(w)>>)}
    IN  IF js = {} THEN <<>> ELSE ls[CHOOSE j \in js : \A h \in js : j <= h]

\* NormalizeType with 'slab' alone tested before the other rules
NormalizeTypeSlabFirst(text) ==
    LET low == LineLower(text)
        has(w) == Contains(low, <<L(w)>>)
    IN  IF has("slab") THEN "persistent_slab"
        ELSE IF has("loose") /\ has("dry") THEN "loose_dry"
        ELSE IF has("loose") /\ has("wet") THEN "loose_wet"
        ELSE IF has("cornice") THEN "cornice"
        ELSE IF has("glide") THEN "glide"
        ELSE "unknown"

\* lines 213-233
NormalizeType(text) ==
    LET low == LineLower(text)
        has(w) == Contains(low, <<L(w)>>)
    IN  IF has("persistent") /\ has("slab") THEN "persistent_slab"
        ELSE IF has("wind") /\ has("slab") THEN "wind_slab"
        ELSE IF has("storm") /\ has("slab") THEN "storm_slab"
        ELSE IF has("wet") /\ has("slab") THEN "wet_slab"
        ELSE IF has("loose") /\ has("dry") THEN "loose_dry"
        ELSE IF has("loose") /\ has("wet") THEN "loose_wet"
        ELSE IF has("cornice") THEN "cornice"
        ELSE IF has("glide") THEN "glide"
        ELSE IF has("slab") THEN "persistent_slab"
        ELSE "unknown"

\* line 250
IsLabelLine(line) ==
    \/ Contains(LineUpper(line), <<U("problem"), U("type")>>)
    \/ \E h \in {"aspect", "likelihood", "size", "elevation"} :
          Contains(LineUpper(line), <<U(h)>>)

\* line 252
IsCompassLine(line) ==
    line \in { <<U(a)>> : a \in {"n", "e", "s", "w", "ne", "nw", "se", "sw"} }

\* line 254: re.match(r'^(Small|Large|Very Large|...|Certain)', line, re.IGNORECASE)
IsScaleLine(line) ==
    /\ line # <<>>
    /\ \/ \E w \in {"small", "large", "historic", "unlikely", "possible",
                    "likely", "certain"} : PrefixOf(L(w), Lower(line[1]))
       \/ /\ Len(line) >= 2
          /\ Lower(line[1]) = L("very")
          /\ \E w \in {"large", "likely"} : PrefixOf(L(w), Lower(line[2]))

\* line 256 (the case is compared as written)
IsBandLine(line) ==
    \E b \in {"above", "near", "below"} : Contains(line, <<T(b), T("treeline")>>)

Cut(tok, keep) == <<tok[1], tok[2], keep>>

RECURSIVE TakeChars(_, _)
\* s[:n]
TakeChars(toks, n) ==
    IF toks = <<>> \/ n <= 0 THEN <<>>
    ELSE IF CharLen(Head(toks)) = n THEN <<Head(toks)>>
    ELSE IF CharLen(Head(toks)) > n THEN <<Cut(Head(toks), n)>>
    ELSE IF Tail(toks) = <<>> THEN <<Head(toks)>>
    ELSE IF n - CharLen(Head(toks)) = Gap(Head(toks), Head(Tail(toks)))
    THEN <<Head(toks), Cut(Head(Tail(toks)), 0)>>
    ELSE <<Head(toks)>>
         \o TakeChars(Tail(toks),
                       n - CharLen(Head(toks)) - Gap(Head(toks), Head(Tail(toks))))

RECURSIVE DetailsScan(_, _, _, _, _)
\* lines 245-270: the loop from line j to line last
DetailsScan(ls, j, last, details, in_details) ==
    IF j > last THEN details
    ELSE LET line == ls[j] IN
         IF IsLabelLine(line) \/ IsCompassLine(line) \/ IsScaleLine(line) \/ IsBandLine(line)
         THEN DetailsScan(ls, j + 1, last, details, in_details)
         ELSE IF ProblemMatch(line) THEN details
         ELSE IF LineLen(line) > DetailFirstLen /\ ~in_details
         THEN DetailsScan(ls, j + 1, last, line, TRUE)
         ELSE IF in_details /\ LineLen(line) > DetailMoreLen
         THEN DetailsScan(ls, j + 1, last, details \o line, in_details)
         ELSE IF in_details /\ LineLen(line) < DetailEndLen THEN details
         ELSE DetailsScan(ls, j + 1, last, details, in_details)

ProblemDetails(ls, at) ==
    LET d == DetailsScan(ls, at + 1, Min(at + DetailWindow - 1, Len(ls)), <<>>, FALSE)
    IN  IF d # <<>> THEN TakeChars(d, DetailCap) ELSE None

\* lines 201-279: the problem of the marker line at
ProblemAt(ls, at) ==
    LET inline == ProblemTypeText(ls[at])
        prob_type_text == IF inline = <<>> THEN LookAheadType(ls, at) ELSE inline
    IN  [ problem_number |-> IntOf(ls[at][ProblemNumberAt(ls[at])]),
          problem_type |-> NormalizeType(prob_type_text),
          likelihood |-> "Possible",
          size |-> "D2",
          aspect_elevation_rose |-> selenium_create_empty_rose,
          details |-> ProblemDetails(ls, at) ]

RECURSIVE ProblemsFrom(_, _)
\* lines 198-281
ProblemsFrom(ls, at) ==
    IF at > Len(ls) THEN <<>>
    ELSE (IF ProblemMatch(ls[at]) THEN <<ProblemAt(ls, at)>> ELSE <<>>)
         \o ProblemsFrom(ls, at + 1)


\* the first of the places hs, 0 when there is none
FirstOf(hs) == IF hs = {} THEN 0 ELSE CHOOSE h \in hs : \A g \in hs : h <= g

IsBottomLineHeading(line) == Contains(LineUpper(line), <<U("bottom"), U("line")>>)

\* line 293
IsHeadingLike(line) ==
    \E h \in {"forecast", "avalanche", "problem"} : Contains(LineUpper(line), <<U(h)>>)

RECURSIVE BottomLineMore(_, _, _, _)
\* lines 291-296: the loop from line k to line last
BottomLineMore(ls, k, last, bottom_line) ==
    IF k > last THEN bottom_line
    ELSE IF LineLen(ls[k]) > BottomMoreLen
    THEN BottomLineMore(ls, k + 1, last,
             IF IsHeadingLike(ls[k]) THEN bottom_line ELSE bottom_line \o ls[k])
    ELSE bottom_line

\* lines 284-298
BottomLine(ls) ==
    LET h  == FirstOf({g \in 1..Len(ls) : IsBottomLineHeading(ls[g])})
        js == {j \in (h + 1)..Min(h + BottomWindow - 1, Len(ls)) :
                  LineLen(ls[j]) > BottomFirstLen}
        j0 == CHOOSE j \in js : \A g \in js : j <= g
    IN  IF h = 0 \/ js = {} THEN <<>>
        ELSE BottomLineMore(ls, j0 + 1, Min(j0 + BottomMoreWindow - 1, Len(ls)), ls[j0])

IsDiscussionHeading(line) ==
    Contains(LineUpper(line), <<U("forecast"), U("discussion")>>)

\* line 307
IsDiscussionStop(line) ==
    \/ Contains(LineUpper(line), <<U("avalanche"), U("problem")>>)
    \/ Contains(LineUpper(line), <<U("weather")>>)
    \/ Contains(LineUpper(line), <<U("recent")>>)

RECURSIVE DiscussionScan(_, _, _, _)
\* lines 304-310: the loop from line j to line last
DiscussionScan(ls, j, last, discussion) ==
    IF j > last THEN discussion
    ELSE IF ls[j] = <<>> THEN DiscussionScan(ls, j + 1, last, discussion)
    ELSE IF IsDiscussionStop(ls[j]) THEN discussion
    ELSE DiscussionScan(ls, j + 1, last,
             IF LineLen(ls[j]) > DiscussionLineLen THEN discussion \o ls[j] ELSE discussion)

\* lines 301-312
Discussion(ls) ==
    LET h == FirstOf({g \in 1..Len(ls) : IsDiscussionHeading(ls[g])})
    IN  IF h = 0 THEN <<>>
        ELSE DiscussionScan(ls, h + 1, Min(h + DiscussionWindow - 1, Len(ls)), <<>>)

\* line 318
IsWeatherHeading(line) ==
    /\ Contains(LineUpper(line), <<U("weather")>>)
    /\ \E w \in {"mountain", "forecast", "summary"} : Contains(LineUpper(line), <<U(w)>>)

\* line 325
IsWeatherStop(line) ==
    \/ Contains(LineUpper(line), <<U("avalanche"), U("danger")>>)
    \/ Contains(LineUpper(line), <<U("avalanche"), U("problem")>>)
    \/ Contains(LineUpper(line), <<U("bottom"), U("line")>>)

RECURSIVE WeatherScan(_, _, _, _)
\* lines 320-328: the loop from line j to line last
WeatherScan(ls, j, last, weather_text) ==
    IF j > last THEN weather_text
    ELSE IF ls[j] = <<>> THEN WeatherScan(ls, j + 1, last, weather_text)
    ELSE IF IsWeatherStop(ls[j]) THEN weather_text
    ELSE WeatherScan(ls, j + 1, last,
             IF LineLen(ls[j]) > WeatherLineLen THEN weather_text \o ls[j] ELSE weather_text)

\* the units of the three ranges: (?:f|degrees), mph, (?:"|in|inch)
IsUnit(unit, tok) ==
    CASE unit = "temp" -> PrefixOf(L("f"), tok) \/ PrefixOf(L("degrees"), tok)
      [] unit = "wind" -> PrefixOf(L("mph"), tok)
      [] unit = "snow" -> PrefixOf(L("in"), tok) \/ tok = S("\"")

\* a range "<int> to <int> <unit>" at token k: k is a number, then "to" or a
\* hyphen, a number and a token with which the unit begins
RangeAt(toks, k, unit) ==
    /\ k + 3 <= Len(toks)
    /\ IsNumber(toks[k])
    /\ toks[k + 1] \in {L("to"), Hyphen}
    /\ IsNumber(toks[k + 2])
    /\ IsUnit(unit, toks[k + 3])

\* the first range at or after token from, 0 when there is none
FirstRange(toks, from, unit) ==
    LET ks == {k \in from..Len(toks) : RangeAt(toks, k, unit)}
    IN  IF ks = {} THEN 0 ELSE CHOOSE k \in ks : \A g \in ks : k <= g


\* -?\d+ : a hyphen directly before the number is its sign
SignedAt(toks, k) ==
    IF k > 1 /\ toks[k - 1] = Hyphen THEN 0 - IntOf(toks[k]) ELSE IntOf(toks[k])

\* lines 330-356
WeatherOf(weather_text) ==
    LET low   == LineLower(weather_text)
        temp  == FirstRange(low, 1, "temp")
        winds == {w \in 1..Len(low) : InWord(L("wind"), low[w])}
        wind  == IF winds = {} THEN 0
                 ELSE FirstRange(low, (CHOOSE w \in winds : \A g \in winds : w <= g) + 1,
                                 "wind")
        snow  == FirstRange(low, 1, "snow")
    IN  [ summary   |-> TakeChars(weather_text, WeatherSummaryCap),
          full_text |-> weather_text,
          temp      |-> IF temp = 0 THEN None
                        ELSE <<SignedAt(low, temp), IntOf(low[temp + 2])>>,
          wind      |-> IF wind = 0 THEN None
                        ELSE <<IntOf(low[wind]), IntOf(low[wind + 2])>>,
          snow      |-> IF snow = 0 THEN None
                        ELSE <<IntOf(low[snow]), IntOf(low[snow + 2])>> ]

\* lines 315-357
Weather(ls) ==
    LET h == FirstOf({g \in 1..Len(ls) : IsWeatherHeading(ls[g])})
        weather_text ==
            WeatherScan(ls, h + 1, Min(h + WeatherWindow - 1, Len(ls)), <<>>)
    IN  IF h = 0 \/ weather_text = <<>> THEN None ELSE WeatherOf(weather_text)

\* "Visit CBAC website for forecast summary."
DefaultBottomLine ==
    <<T("visit"), U("cbac"), L("website"), L("for"), L("forecast"), L("summary"), S(".")>>
\* "Visit CBAC website for full forecast discussion."
DefaultDiscussion ==
    <<T("visit"), U("cbac"), L("website"), L("for"), L("full"), L("forecast"),
      L("discussion"), S(".")>>

\* line 359, and line 385 of cbac_api_scraper.py
ZoneName(z) == IF z = "northwest" THEN "Northwest Mountains" ELSE "Southeast Mountains"

\* datetime.now().strftime("%Y-%m-%d")
Today == "2026-01-15"

\* SeleniumForecast with the texts as they were found, without the placeholders
SeleniumForecastAsFound(ls, z, alpine, treeline, btl) ==
    [ zone |-> z,
      zone_name |-> ZoneName(z),
      issue_date |-> Today,
      valid_date |-> Today,
      danger_alpine |-> alpine,
      danger_treeline |-> treeline,
      danger_below_treeline |-> btl,
      bottom_line |-> BottomLine(ls),
      discussion |-> Discussion(ls),
      problems |-> ProblemsFrom(ls, 1),
      forecast_url |-> get_forecast_url(z),
      weather |-> Weather(ls) ]

\* lines 359-374
SeleniumForecast(ls, z, alpine, treeline, btl) ==
    [ zone |-> z,
      zone_name |-> ZoneName(z),
      issue_date |-> Today,
      valid_date |-> Today,
      danger_alpine |-> alpine,
      danger_treeline |-> treeline,
      danger_below_treeline |-> btl,
      bottom_line |-> IF BottomLine(ls) # <<>> THEN BottomLine(ls) ELSE DefaultBottomLine,
      discussion |-> IF Discussion(ls) # <<>> THEN Discussion(ls) ELSE DefaultDiscussion,
      problems |-> ProblemsFrom(ls, 1),
      forecast_url |-> get_forecast_url(z),
      weather |-> Weather(ls) ]

-----------------------------------------------------------------------------
(* parse_page_text as a process *)

\* a scan that reopens: a second AVALANCHE DANGER heading clears
\* danger_section_done, so the last region wins
DangerScanStepReopening ==
    /\ pc = "danger"
    /\ i <= Len(lines)
    /\ LET line   == lines[i]
           closes == in_danger_section /\ IsClosingHeading(line)
           open   == (in_danger_section /\ ~closes) /\ ~(danger_section_done \/ closes)
       IN  IF IsDangerHeading(line)
           THEN /\ in_danger_section' = TRUE
                /\ danger_section_done' = FALSE
                /\ UNCHANGED <<danger_alpine, danger_treeline, danger_btl>>
           ELSE /\ in_danger_section' = (in_danger_section /\ ~closes)
                /\ danger_section_done' = (danger_section_done \/ closes)
                /\ danger_alpine' =
                      IF open /\ IsAboveMarker(line)
                      THEN LookAhead(lines, i, danger_alpine) ELSE danger_alpine
                /\ danger_treeline' =
                      IF open /\ ~IsAboveMarker(line) /\ IsNearMarker(line)
                      THEN LookAhead(lines, i, danger_treeline) ELSE danger_treeline
                /\ danger_btl' =
                      IF open /\ ~IsAboveMarker(line) /\ ~IsNearMarker(line)
                              /\ IsBelowMarker(line)
                      THEN LookAhead(lines, i, danger_btl) ELSE danger_btl
    /\ i' = i + 1
    /\ UNCHANGED <<store, pc, entry, lines, zone, args, result>>

\* lines 153-192: one turn of the danger scan
DangerScanStep ==
    /\ pc = "danger"
    /\ i <= Len(lines)
    /\ LET line   == lines[i]
           closes == in_danger_section /\ IsClosingHeading(line)
           open   == (in_danger_section /\ ~closes) /\ ~(danger_section_done \/ closes)
       IN  IF IsDangerHeading(line)
           THEN /\ in_danger_section' = TRUE
                /\ UNCHANGED <<danger_section_done, danger_alpine, danger_treeline,
                               danger_btl>>
           ELSE /\ in_danger_section' = (in_danger_section /\ ~closes)
                /\ danger_section_done' = (danger_section_done \/ closes)
                /\ danger_alpine' =
                      IF open /\ IsAboveMarker(line)
                      THEN LookAhead(lines, i, danger_alpine) ELSE danger_alpine
                /\ danger_treeline' =
                      IF open /\ ~IsAboveMarker(line) /\ IsNearMarker(line)
                      THEN LookAhead(lines, i, danger_treeline) ELSE danger_treeline
                /\ danger_btl' =
                      IF open /\ ~IsAboveMarker(line) /\ ~IsNearMarker(line)
                              /\ IsBelowMarker(line)
                      THEN LookAhead(lines, i, danger_btl) ELSE danger_btl
    /\ i' = i + 1
    /\ UNCHANGED <<store, pc, entry, lines, zone, args, result>>

\* lines 194-374: the problems, the bottom line, the discussion, the weather and
\* the Forecast that is returned
FinishParse ==
    /\ pc = "danger"
    /\ i > Len(lines)
    /\ result' = SeleniumForecast(lines, zone, danger_alpine, danger_treeline, danger_btl)
    /\ pc' = "done"
    /\ UNCHANGED <<store, entry, lines, zone, i, in_danger_section, danger_section_done,
                   danger_alpine, danger_treeline, danger_btl, args>>

\* text.split('\n'): the lines of a text, the empty text being one empty line
Split(text) == IF text = <<>> THEN << <<>> >> ELSE text

\* lines 137-151: the state parse_page_text starts its scan in
StartParse(text, z) ==
    /\ lines = Split(text)
    /\ zone = z
    /\ i = 1
    /\ in_danger_section = FALSE
    /\ danger_section_done = FALSE
    /\ danger_alpine = DefaultAlpine
    /\ danger_treeline = DefaultTreeline
    /\ danger_btl = DefaultBelowTreeline
    /\ result = None
    /\ store = EmptyStore


-----------------------------------------------------------------------------
(* The pages of the danger scan *)

SeqsUpTo(A, n) == UNION {[1..k -> A] : k \in 0..n}

HeadDanger      == <<U("avalanche"), U("danger")>>
HeadScale       == <<U("danger"), U("scale")>>
HeadProblems    == <<U("avalanche"), U("problems")>>
HeadDangerScale == <<T("avalanche"), T("danger"), T("scale")>>
MarkAbove       == <<T("above"), T("treeline"), UpArrow>>
MarkNear        == <<T("near"), T("treeline")>>
MarkBelow       == <<T("below"), T("treeline"), DownArrow>>
Blank           == <<>>

RatingWord(d) ==
    CASE d = 1 -> T("low") [] d = 2 -> T("moderate") [] d = 3 -> T("considerable")
      [] d = 4 -> T("high") [] d = 5 -> T("extreme") [] OTHER -> T("unknown")
DigitWord(d) == CHOOSE w \in Digits : DigitVal(w) = d

\* "3 - Considerable", and "4 – High" with an en dash
Rating(d)     == <<S(DigitWord(d)), Hyphen, RatingWord(d)>>
RatingDash(d) == <<S(DigitWord(d)), EnDash, RatingWord(d)>>

\* the legend of the danger scale
Legend == <<HeadScale, Rating(1), Rating(2), Rating(3), Rating(4), Rating(5)>>

MaxBody == 3
DangerLines ==
    { HeadDanger, HeadScale, HeadProblems, HeadDangerScale, MarkAbove, MarkNear,
      MarkBelow, Rating(3), RatingDash(4), Blank }

RatingDigits == {0, 1, 2, 3, 4, 5, 7}
Marker(b) == CASE b = "alpine" -> MarkAbove [] b = "treeline" -> MarkNear
               [] b = "below_treeline" -> MarkBelow
\* what a page shows of one band: nothing, the marker alone, or the marker and its
\* rating on the next line or the one after
BandBlocks(b) ==
    { <<>>, <<Marker(b)>> }
    \cup { <<Marker(b), Rating(d)>> : d \in RatingDigits }
    \cup { <<Marker(b), Blank, RatingDash(d)>> : d \in RatingDigits }

\* free pages of up to MaxBody lines, alone or before one rated band, and pages
\* laid out as the site lays them out: the heading, the three bands, then nothing
\* or the legend
DangerPages ==
    { body \o last :
        body \in SeqsUpTo(DangerLines, MaxBody),
        last \in { <<>>, <<MarkAbove, RatingDash(4)>>, <<MarkNear, Blank, Rating(3)>> } }
    \cup { <<HeadDanger>> \o a \o n \o b \o tail :
             a \in BandBlocks("alpine"), n \in BandBlocks("treeline"),
             b \in BandBlocks("below_treeline"),
             tail \in { <<>>, Legend, <<HeadDangerScale>> \o Tail(Legend) } }

InitDanger ==
    /\ pc = "danger"
    /\ entry = "parse_page_text"
    /\ args = None
    /\ \E text \in DangerPages : StartParse(text, "northwest")

NextParse == DangerScanStep \/ FinishParse

SpecDanger == InitDanger /\ [][NextParse]_vars


-----------------------------------------------------------------------------
(* Danger ratings *)

Bands == {"alpine", "treeline", "below_treeline"}

\* the band a line is the marker of, "none" for any other line
BandOf(line) ==
    IF IsAboveMarker(line) THEN "alpine"
    ELSE IF IsNearMarker(line) THEN "treeline"
    ELSE IF IsBelowMarker(line) THEN "below_treeline"
    ELSE "none"

BandValue(f, b) ==
    CASE b = "alpine" -> f.danger_alpine
      [] b = "treeline" -> f.danger_treeline
      [] b = "below_treeline" -> f.danger_below_treeline

BandDefault(b) ==
    CASE b = "alpine" -> DefaultAlpine
      [] b = "treeline" -> DefaultTreeline
      [] b = "below_treeline" -> DefaultBelowTreeline

SetMax(A) == CHOOSE a \in A : \A b \in A : a >= b
SetMin(A) == CHOOSE a \in A : \A b \in A : a <= b

\* the page is: the first AVALANCHE DANGER heading at line h, then markers each
\* directly followed by its rating line, then the DANGER SCALE heading at line k
\* and the rating lines of the legend
LegendLayout(ls, h, k) ==
    /\ h < k /\ k < Len(ls)
    /\ IsDangerHeading(ls[h])
    /\ \A g \in 1..(h - 1) : ~IsDangerHeading(ls[g])
    /\ Contains(LineUpper(ls[k]), <<U("danger"), U("scale")>>)
    /\ \E m \in (h + 1)..(k - 1) : BandOf(ls[m]) # "none"
    /\ \A m \in (h + 1)..(k - 1) :
          \/ BandOf(ls[m]) # "none" /\ m + 1 < k /\ RatingMatch(ls[m + 1])
          \/ RatingMatch(ls[m]) /\ m - 1 > h /\ BandOf(ls[m - 1]) # "none"
    /\ \A m \in (k + 1)..Len(ls) : RatingMatch(ls[m])

\* the digit of the rating line of band b between lines h and k, its default when
\* the band has no marker there
RealRating(ls, h, k, b) ==
    LET ms == {m \in (h + 1)..(k - 1) : BandOf(ls[m]) = b}
    IN  IF ms = {} THEN BandDefault(b) ELSE FirstDigit(ls[SetMax(ms) + 1][1])

\* C1: when the ratings of the danger block are followed by the DANGER SCALE
\* legend, the three danger values returned are the digits of the rating lines of
\* the block; no line of the legend overwrites them.
C1_LegendDoesNotOverwrite ==
    pc = "done" /\ entry = "parse_page_text" =>
        LET h == FirstOf({g \in 1..Len(lines) : IsDangerHeading(lines[g])})
        IN  \A k \in (h + 1)..Len(lines) :
                h # 0 /\ LegendLayout(lines, h, k) =>
                    \A b \in Bands : BandValue(result, b) = RealRating(lines, h, k, b)

\* the regression case: alpine 3 in the block, the whole legend after it
C1_Witness ==
    /\ pc = "done"
    /\ result.danger_alpine = 3
    /\ \E h, k \in 1..Len(lines) :
          /\ SubSeq(lines, k, Len(lines)) = Legend
          /\ LegendLayout(lines, h, k)
          /\ RealRating(lines, h, k, "alpine") = 3

\* the lines the scan reads with the danger region open: after an AVALANCHE DANGER
\* heading and before the first closing heading met with the region open (a line
\* with AVALANCHE DANGER in it is read as that heading)
DangerRegion(ls) ==
    LET heads   == {h \in 1..Len(ls) : IsDangerHeading(ls[h])}
        closers == {k \in 1..Len(ls) :
                       /\ ~IsDangerHeading(ls[k])
                       /\ IsClosingHeading(ls[k])
                       /\ \E h \in heads : h < k}
        close   == IF closers = {} THEN Len(ls) + 1 ELSE SetMin(closers)
    IN  {m \in 1..Len(ls) :
            m < close /\ ~IsDangerHeading(ls[m]) /\ \E h \in heads : h < m}

\* the rating lines among the 2 lines after line m
RatingsAfter(ls, m) == {j \in (m + 1)..Min(m + 2, Len(ls)) : RatingMatch(ls[j])}

\* the markers of each band in the danger region
RegionMarkers(ls) ==
    LET region == DangerRegion(ls)
    IN  [b \in Bands |-> {n \in region : BandOf(ls[n]) = b}]

\* band b has one marker in the danger region, at line m, and a rating line with a
\* digit of 1..5 among the next 2 lines
WellFormedBand(ls, marks, b, m) ==
    /\ marks[b] = {m}
    /\ RatingsAfter(ls, m) # {}
    /\ FirstDigit(ls[SetMin(RatingsAfter(ls, m))][1]) \in 1..5

\* C2: a band whose marker occurs once in the danger region and is followed
\* within 2 lines by a rating line "<digit> - <word>" gets that digit, for the
\* digits 1..5 and each of the three bands.
C2_DigitOfRatingLine ==
    pc = "done" /\ entry = "parse_page_text" =>
        LET marks == RegionMarkers(lines)
        IN  \A b \in Bands : \A m \in marks[b] :
                WellFormedBand(lines, marks, b, m) =>
                    BandValue(result, b)
                        = FirstDigit(lines[SetMin(RatingsAfter(lines, m))][1])

\* the three bands rated 5, 4 and 3, the rating of one of them on the second line
\* after its marker and written with an en dash
C2_Witness ==
    /\ pc = "done"
    /\ result.danger_alpine = 5
    /\ result.danger_treeline = 4
    /\ result.danger_below_treeline = 3
    /\ LET marks == RegionMarkers(lines)
       IN  \E ma \in marks["alpine"], mn \in marks["treeline"],
              mb \in marks["below_treeline"] :
              /\ WellFormedBand(lines, marks, "alpine", ma)
              /\ WellFormedBand(lines, marks, "treeline", mn)
              /\ WellFormedBand(lines, marks, "below_treeline", mb)
              /\ lines[mn + 1] = Blank
              /\ lines[mn + 2] = RatingDash(4)

-----------------------------------------------------------------------------
(* save_to_supabase.py: the trend of a forecast *)

\* lines 71-76
storm_patterns ==
    { <<L("storm"), L("expected")>>, <<L("storm"), L("approaching")>>,
      <<L("storm"), L("arriving")>>, <<L("snow"), L("expected")>>,
      <<L("snow"), L("arriving")>>, <<L("inches"), L("expected")>>,
      <<L("accumulation"), L("expected")>>,
      <<L("danger"), L("is"), L("expected"), L("to"), L("rise")>>,
      <<L("loading"), L("will")>>, <<L("new"), L("load")>> }

\* lines 81-84
worsening_keywords ==
    { <<L("dangerous"), L("avalanche"), L("conditions")>>,
      <<L("heightened"), L("avalanche"), L("conditions")>>,
      <<L("increasing")>>, <<L("elevated"), L("danger")>> }

\* lines 88-91
improving_keywords ==
    { <<L("adjusting")>>, <<L("stabiliz")>>, <<L("decreased")>>, <<L("isolated")>>,
      <<L("stubborn")>>, <<L("unlikely")>>, <<L("slowly"), L("improved")>>,
      <<L("conditions"), L("have"), L("improved")>> }

\* f"{bottom_line or ''} {discussion or ''}": None is the empty text
CombinedText(bottom_line, discussion) == bottom_line \o discussion

AnyIn(patterns, text) == \E pat \in patterns : Contains(text, pat)

\* analyze_trend_from_text with the improving keywords tried before the worsening ones
analyze_trend_improving_first(bottom_line, discussion) ==
    LET text_lower == LineLower(CombinedText(bottom_line, discussion))
    IN  IF AnyIn(storm_patterns, text_lower) THEN "storm_incoming"
        ELSE IF AnyIn(improving_keywords, text_lower) THEN "improving"
        ELSE IF AnyIn(worsening_keywords, text_lower) THEN "worsening"
        ELSE "steady"

\* lines 59-94
analyze_trend_from_text(bottom_line, discussion) ==
    LET text_lower == LineLower(CombinedText(bottom_line, discussion))
    IN  IF AnyIn(storm_patterns, text_lower) THEN "storm_incoming"
        ELSE IF AnyIn(worsening_keywords, text_lower) THEN "worsening"
        ELSE IF AnyIn(improving_keywords, text_lower) THEN "improving"
        ELSE "steady"

\* calculate_trend with the danger levels compared before the text is looked at
calculate_trend_danger_first(current_danger, current_problems, prev_danger, prev_problems, bottom_line, discussion) ==
    IF prev_danger = None THEN analyze_trend_from_text(bottom_line, discussion)
    ELSE IF current_danger - ValueOf(prev_danger) < 0 THEN "improving"
    ELSE IF current_danger - ValueOf(prev_danger) > 0 THEN "worsening"
    ELSE IF analyze_trend_from_text(bottom_line, discussion) = "storm_incoming"
    THEN "storm_incoming"
    ELSE IF prev_problems # None /\ current_problems - ValueOf(prev_problems) < 0 THEN "improving"
    ELSE IF prev_problems # None /\ current_problems - ValueOf(prev_problems) > 0 THEN "worsening"
    ELSE analyze_trend_from_text(bottom_line, discussion)

\* calculate_trend with the problem counts left out
calculate_trend_no_problems(current_danger, current_problems, prev_danger, prev_problems, bottom_line, discussion) ==
    LET text_trend == analyze_trend_from_text(bottom_line, discussion)
    IN  IF prev_danger = None THEN text_trend
        ELSE IF text_trend = "storm_incoming" THEN "storm_incoming"
        ELSE IF current_danger - ValueOf(prev_danger) < 0 THEN "improving"
        ELSE IF current_danger - ValueOf(prev_danger) > 0 THEN "worsening"
        ELSE text_trend

\* lines 97-145
calculate_trend(current_danger, current_problems, prev_danger, prev_problems, bottom_line, discussion) ==
    LET text_trend == analyze_trend_from_text(bottom_line, discussion)
    IN  IF prev_danger = None THEN analyze_trend_from_text(bottom_line, discussion)
        ELSE IF text_trend = "storm_incoming" THEN "storm_incoming"
        ELSE IF current_danger - ValueOf(prev_danger) < 0 THEN "improving"
        ELSE IF current_danger - ValueOf(prev_danger) > 0 THEN "worsening"
        ELSE IF prev_problems # None /\ current_problems - ValueOf(prev_problems) < 0
        THEN "improving"
        ELSE IF prev_problems # None /\ current_problems - ValueOf(prev_problems) > 0
        THEN "worsening"
        ELSE text_trend

\* the call of calculate_trend on the arguments of the state
CalculateTrend ==
    /\ pc = "calculate_trend"
    /\ result' = calculate_trend(args.current_danger, args.current_problems,
                                 args.prev_danger, args.prev_problems,
                                 args.bottom_line, args.discussion)
    /\ pc' = "done"
    /\ UNCHANGED <<store, entry, lines, zone, i, in_danger_section, danger_section_done,
                   danger_alpine, danger_treeline, danger_btl, args>>

\* the variables of parse_page_text while another function runs
NoParse ==
    /\ lines = <<>>
    /\ zone = ""
    /\ i = 0
    /\ in_danger_section = FALSE
    /\ danger_section_done = FALSE
    /\ danger_alpine = 0
    /\ danger_treeline = 0
    /\ danger_btl = 0
    /\ result = None
    /\ store = EmptyStore

MaxTrendWords == 2
MaxProblems == 1
MaxDanger == 3
TrendWords ==
    { L("storm"), L("expected"), T("increasing"), L("stabilizing"), L("calm") }
TrendTexts == SeqsUpTo(TrendWords, MaxTrendWords)

InitTrend ==
    /\ pc = "calculate_trend"
    /\ entry = "calculate_trend"
    /\ NoParse
    /\ args \in [ current_danger : 1..MaxDanger,
                  current_problems : 0..MaxProblems,
                  prev_danger : {None} \cup {Some(d) : d \in 1..MaxDanger},
                  prev_problems : {None} \cup {Some(n) : n \in 0..MaxProblems},
                  bottom_line : TrendTexts,
                  discussion : SeqsUpTo(TrendWords, 1) ]

NextTrend == CalculateTrend

SpecTrend == InitTrend /\ [][NextTrend]_vars

TrendText == LineLower(CombinedText(args.bottom_line, args.discussion))
HasStorm == AnyIn(storm_patterns, TrendText)
HasWorsening == AnyIn(worsening_keywords, TrendText)
HasImproving == AnyIn(improving_keywords, TrendText)

TrendDone == pc = "done" /\ entry = "calculate_trend"

C4_DayOverDay ==
    TrendDone /\ args.prev_danger # None /\ ~HasStorm =>
        /\ args.current_danger < ValueOf(args.prev_danger) => result = "improving"
        /\ args.current_danger > ValueOf(args.prev_danger) => result = "worsening"
        /\ args.current_danger = ValueOf(args.prev_danger) /\ args.prev_problems # None =>
              /\ args.current_problems < ValueOf(args.prev_problems) => result = "improving"
              /\ args.current_problems > ValueOf(args.prev_problems) => result = "worsening"
              /\ args.current_problems = ValueOf(args.prev_problems) =>
                    result = analyze_trend_from_text(args.bottom_line, args.discussion)

\* equal danger, fewer problems than the day before, and a text that reads worsening
C4_Witness ==
    /\ TrendDone
    /\ args.prev_danger # None
    /\ ~HasStorm
    /\ HasWorsening
    /\ args.current_danger = ValueOf(args.prev_danger)
    /\ args.prev_problems # None
    /\ args.current_problems < ValueOf(args.prev_problems)
    /\ result = "improving"

TrendLabels == {"improving", "steady", "worsening", "storm_incoming"}

\* C5: without a previous forecast the trend is the keyword class of the text,
\* tried in the order storm, worsening, improving, steady, whatever the danger and
\* the problem counts are; the trend is always one of the four labels.
C5_TextOnlyWithoutPrevious ==
    TrendDone =>
        /\ result \in TrendLabels
        /\ args.prev_danger = None =>
              result = IF HasStorm THEN "storm_incoming"
                       ELSE IF HasWorsening THEN "worsening"
                       ELSE IF HasImproving THEN "improving"
                       ELSE "steady"

\* no previous forecast and a text with a worsening and an improving keyword
C5_Witness ==
    /\ TrendDone
    /\ args.prev_danger = None
    /\ ~HasStorm /\ HasWorsening /\ HasImproving
    /\ result = "worsening"

-----------------------------------------------------------------------------
(* The pages of the problem scan *)

\* "PROBLEM #1: Persistent Slab", "PROBLEM #2: Wind Slab", and a marker without
\* its type, "PROBLEM #3"
Problem1 == <<U("problem"), S("#"), S("1"), S(":"), T("persistent"), T("slab")>>
Problem2 == <<U("problem"), S("#"), S("2"), S(":"), T("wind"), T("slab")>>
Problem3 == <<U("problem"), S("#"), S("3")>>

\* "Buried weak layers remain reactive on steep shaded slopes today"
DescPlain ==
    <<T("buried"), L("weak"), L("layers"), L("remain"), L("reactive"), L("on"),
      L("steep"), L("shaded"), L("slopes"), L("today")>>
\* "Large slides remain a real concern on steep shaded slopes today"
DescLarge ==
    <<T("large"), L("slides"), L("remain"), L("a"), L("real"), L("concern"), L("on"),
      L("steep"), L("shaded"), L("slopes"), L("today")>>
\* "Weak layers remain reactive at upper elevations on shaded slopes"
DescElevations ==
    <<T("weak"), L("layers"), L("remain"), L("reactive"), L("at"), L("upper"),
      L("elevations"), L("on"), L("shaded"), L("slopes")>>
\* "Steep shaded slopes remain reactive", "Shaded slopes today", "Use care"
MoreLine  == <<T("steep"), L("shaded"), L("slopes"), L("remain"), L("reactive")>>
MidLine   == <<T("shaded"), L("slopes"), L("today")>>
ShortLine == <<T("use"), L("care")>>
\* the labels of the problem block: "PROBLEM TYPE", "N", "Storm Slab"
LabelLine   == <<U("problem"), U("type")>>
CompassLine == <<U("n")>>
TypeLine    == <<T("storm"), T("slab")>>

MaxProblemBody == 3
ProblemLines ==
    { DescPlain, DescLarge, DescElevations, MoreLine, MidLine, ShortLine, Blank,
      LabelLine, CompassLine, TypeLine, Problem2 }

\* a problem marker and up to MaxProblemBody lines after it
ProblemPages ==
    { <<mark>> \o body :
        mark \in {Problem1, Problem3}, body \in SeqsUpTo(ProblemLines, MaxProblemBody) }

\* type texts that one rule, several rules and no rule match
TypeTexts ==
    { <<T("persistent"), T("wind"), T("slab")>>, <<T("wet"), T("storm"), T("slab")>>,
      <<T("wet"), T("slab")>>, <<T("slab")>>, <<T("loose"), T("dry")>>,
      <<T("wet"), T("loose")>>, <<T("loose"), T("wet"), L("and"), T("dry")>>,
      <<T("cornice"), T("loose"), T("wet")>>, <<T("cornice"), T("glide")>>,
      <<T("glide"), T("slab")>>, <<T("deep"), T("instability")>> }

\* "PROBLEM #1: <type text>"
ProblemTyped(text) == <<U("problem"), S("#"), S("1"), S(":")>> \o text

\* the lines after a marker without its type
MaxTypeBody == 5
TypeBodyLines ==
    { Blank, LabelLine, ShortLine, <<T("persistent"), T("wind"), T("slab")>> }

\* a marker with its type text and a line after it, and a marker without its type
\* and up to MaxTypeBody lines after it
TypePages ==
    { <<ProblemTyped(text)>> \o body :
        text \in TypeTexts, body \in SeqsUpTo({TypeLine, LabelLine}, 1) }
    \cup { <<Problem3>> \o body : body \in SeqsUpTo(TypeBodyLines, MaxTypeBody) }

\* "PROBLEM #2: Storm Slab on all aspects"
Problem2Aspects ==
    <<U("problem"), S("#"), S("2"), S(":"), T("storm"), T("slab"), L("on"), L("all"),
      L("aspects")>>

\* a marker, and up to MaxProblemBody lines with the markers of the next problem
MarkerPages ==
    { <<Problem1>> \o body :
        body \in SeqsUpTo({DescPlain, MoreLine, ShortLine, Problem2, Problem2Aspects},
                          MaxProblemBody) }

InitProblems ==
    /\ pc = "danger"
    /\ entry = "parse_page_text"
    /\ args = None
    /\ \E text \in ProblemPages \cup TypePages \cup MarkerPages :
          StartParse(text, "northwest")

SpecProblems == InitProblems /\ [][NextParse]_vars

-----------------------------------------------------------------------------
(* Avalanche problems *)

ParseDone == pc = "done" /\ entry = "parse_page_text"

\* the problem made of the marker at line m: the problems are in the order of
\* their markers
ProblemOf(m) == result.problems[Cardinality({j \in 1..m : ProblemMatch(lines[j])})]

\* line m is a marker with its type text, the line after it is one descriptive line
\* of more than 50 characters, and then the text ends or a line of less than 10
\* characters follows
DescribedProblem(ls, m) ==
    /\ m + 1 <= Len(ls)
    /\ ProblemMatch(ls[m])
    /\ ProblemTypeText(ls[m]) # <<>>
    /\ LineLen(ls[m + 1]) > 50
    /\ ~ProblemMatch(ls[m + 1])
    /\ m + 2 <= Len(ls) => LineLen(ls[m + 2]) < 10

\* C6: a marker 'PROBLEM #n: <type text>' directly followed by one descriptive line
\* of more than 50 characters, then a short line or the end of the text, gives a
\* problem with likelihood Possible, size D2, the type of the type text
\* (persistent_slab for "Persistent Slab") and that line as its details, whatever the
\* words of the line are.
C6_DetailsAreTheDescriptiveLine ==
    ParseDone =>
        \A m \in 1..Len(lines) :
            DescribedProblem(lines, m) =>
                /\ ProblemOf(m).likelihood = "Possible"
                /\ ProblemOf(m).size = "D2"
                /\ ProblemTypeText(lines[m]) = <<T("persistent"), T("slab")>> =>
                      ProblemOf(m).problem_type = "persistent_slab"
                /\ ProblemOf(m).details = lines[m + 1]

\* the scenario of the specification: "PROBLEM #1: Persistent Slab", then a
\* descriptive line without a word of the scales, kept as the details
C6_Witness ==
    /\ ParseDone
    /\ lines = <<Problem1, DescPlain>>
    /\ DescribedProblem(lines, 1)
    /\ ProblemOf(1).problem_type = "persistent_slab"
    /\ ProblemOf(1).details = DescPlain

-----------------------------------------------------------------------------
(* The pages of the sections *)

\* "THE BOTTOM LINE", "FORECAST DISCUSSION", "MOUNTAIN WEATHER"
HeadBottomLine == <<U("the"), U("bottom"), U("line")>>
HeadDiscussion == <<U("forecast"), U("discussion")>>
HeadWeather    == <<U("mountain"), U("weather")>>
\* "Highs 10 to 20 F"
WeatherLine == <<T("highs"), S("10"), L("to"), S("20"), U("f")>>

MaxSection == 3
SectionLines ==
    { HeadDanger, MarkAbove, Rating(3), Problem1, DescPlain, MoreLine, ShortLine,
      HeadBottomLine, HeadDiscussion, HeadWeather, WeatherLine }

SectionPages == SeqsUpTo(SectionLines, MaxSection)

\* "Avalanche problems are listed below"
AvalancheLine == <<T("avalanche"), L("problems"), L("are"), L("listed"), L("below")>>

\* the heading of the bottom line, its first line, and up to MaxSection lines
BottomPages ==
    { <<HeadBottomLine, DescPlain>> \o body :
        body \in SeqsUpTo({MoreLine, ShortLine, AvalancheLine, Blank}, MaxSection) }

InitSections ==
    /\ pc = "danger"
    /\ entry = "parse_page_text"
    /\ args = None
    /\ \E text \in SectionPages \cup BottomPages, z \in FORECAST_ZONES :
          StartParse(text, z)

SpecSections == InitSections /\ [][NextParse]_vars

-----------------------------------------------------------------------------
(* Defaults *)

\* the pattern of each field is in the text: a marker of band b in the danger
\* region with a rating line among the next 2 lines, a problem marker, and the
\* heading of the bottom line, the discussion and the weather
BandFound(ls, b) == \E m \in RegionMarkers(ls)[b] : RatingsAfter(ls, m) # {}
ProblemFound(ls) == \E m \in 1..Len(ls) : ProblemMatch(ls[m])
BottomLineFound(ls) == \E m \in 1..Len(ls) : IsBottomLineHeading(ls[m])
DiscussionFound(ls) == \E m \in 1..Len(ls) : IsDiscussionHeading(ls[m])
WeatherFound(ls) == \E m \in 1..Len(ls) : IsWeatherHeading(ls[m])

\* the Forecast of a text in which nothing is found
AllDefault(z) ==
    [ zone |-> z,
      zone_name |-> ZoneName(z),
      issue_date |-> Today,
      valid_date |-> Today,
      danger_alpine |-> 2,
      danger_treeline |-> 2,
      danger_below_treeline |-> 1,
      bottom_line |-> DefaultBottomLine,
      discussion |-> DefaultDiscussion,
      problems |-> <<>>,
      forecast_url |-> get_forecast_url(z),
      weather |-> None ]

\* C7: parse_page_text returns a Forecast for every text (the scan is at a line of
\* the text or past its last line, where the Forecast is made), and each field whose
\* pattern is not in the text has its default whatever the other fields are:
\* dangers 2, 2 and 1, no problems, no weather, the two placeholder texts; a text
\* with none of the patterns gives the all-default Forecast.
C7_TotalWithDefaults ==
    /\ pc \in {"danger", "done"}
    /\ pc = "danger" => i \in 1..(Len(lines) + 1)
    /\ ParseDone =>
          /\ result # None
          /\ DOMAIN result = DOMAIN AllDefault(zone)
          /\ ~BandFound(lines, "alpine") => result.danger_alpine = 2
          /\ ~BandFound(lines, "treeline") => result.danger_treeline = 2
          /\ ~BandFound(lines, "below_treeline") => result.danger_below_treeline = 1
          /\ ~ProblemFound(lines) => result.problems = <<>>
          /\ ~WeatherFound(lines) => result.weather = None
          /\ ~BottomLineFound(lines) => result.bottom_line = DefaultBottomLine
          /\ ~DiscussionFound(lines) => result.discussion = DefaultDiscussion
          /\ ( /\ \A b \in Bands : ~BandFound(lines, b)
               /\ ~ProblemFound(lines) /\ ~WeatherFound(lines)
               /\ ~BottomLineFound(lines) /\ ~DiscussionFound(lines) )
             => result = AllDefault(zone)

\* a text with a problem and a discussion, and nothing else: the other fields have
\* their defaults
C7_Witness ==
    /\ ParseDone
    /\ ProblemFound(lines) /\ Len(result.problems) = 1
    /\ DiscussionFound(lines) /\ result.discussion = DescPlain
    /\ \A b \in Bands : ~BandFound(lines, b) /\ BandValue(result, b) = BandDefault(b)
    /\ ~BottomLineFound(lines) /\ result.bottom_line = DefaultBottomLine
    /\ ~WeatherFound(lines) /\ result.weather = None

-----------------------------------------------------------------------------
(* cbac_api_scraper.py: the decoded payload *)

\* A JSON value is a record of its type t and its value val; Missing is the value
\* of a key that a dict does not have. TLC compares records field by field in the order
\* in which the module first names the fields: t is named first, so values of
\* different types are told apart by their types.
Missing  == [t |-> "missing", val |-> <<>>]
JNull    == [t |-> "null", val |-> <<>>]
JStr(s)  == [t |-> "str", val |-> s]
JInt(n)  == [t |-> "int", val |-> n]
JList(l) == [t |-> "list", val |-> l]
JDict(d) == [t |-> "dict", val |-> d]

HasKey(d, k) == k \in DOMAIN d.val /\ d.val[k].t # "missing"
\* d.get(k, default)
Get(d, k, default) == IF HasKey(d, k) THEN d.val[k] ELSE default
\* bool(x)
Truthy(x) ==
    CASE x.t \in {"missing", "null"} -> FALSE
      [] x.t = "int" -> x.val # 0
      [] x.t \in {"str", "list"} -> x.val # <<>>
      [] x.t = "dict" -> \E k \in DOMAIN x.val : HasKey(x, k)

\* for e in x: raises for a value that is not iterable, and the characters of a
\* text and the keys of a dict are texts
NotIterable(x) == x.t \in {"null", "int"}

ZONES == [southeast |-> "southeast_mountains", northwest |-> "northwest_mountains"]

ASPECT_MAP ==
    [ north |-> "N", northeast |-> "NE", east |-> "E", southeast |-> "SE",
      south |-> "S", southwest |-> "SW", west |-> "W", northwest |-> "NW" ]

ELEVATION_MAP == [upper |-> "alpine", middle |-> "treeline", lower |-> "below_treeline"]

\* d.get(k) of a dict of the program
DictGet(d, k) == IF k \in DOMAIN d THEN Some(d[k]) ELSE None

create_empty_rose == [a \in Aspects |-> [e \in Elevations |-> FALSE]]

\* MarkLocation with the cell of the aspect replaced by a dict of the one elevation
MarkLocationPartial(rose, loc) ==
    LET parts     == [k \in DOMAIN loc.val |-> Lower(loc.val[k])[1]]
        aspect    == IF Len(parts) >= 2 THEN DictGet(ASPECT_MAP, parts[1]) ELSE None
        elevation == IF Len(parts) >= 2 THEN DictGet(ELEVATION_MAP, parts[2]) ELSE None
    IN  IF aspect # None /\ elevation # None /\ ValueOf(aspect) \in DOMAIN rose
        THEN DictSet(rose, ValueOf(aspect), [e \in {ValueOf(elevation)} |-> TRUE])
        ELSE rose

\* MarkLocation without lower(): a word with a capital is not in the maps
MarkLocationAsWritten(rose, loc) ==
    LET parts     == [k \in DOMAIN loc.val |->
                         IF loc.val[k][2] = "L" THEN loc.val[k][1] ELSE ""]
        aspect    == IF Len(parts) >= 2 THEN DictGet(ASPECT_MAP, parts[1]) ELSE None
        elevation == IF Len(parts) >= 2 THEN DictGet(ELEVATION_MAP, parts[2]) ELSE None
    IN  IF aspect # None /\ elevation # None /\ ValueOf(aspect) \in DOMAIN rose
        THEN DictSet(rose, ValueOf(aspect),
                     DictSet(rose[ValueOf(aspect)], ValueOf(elevation), TRUE))
        ELSE rose

\* lines 98-107: one entry of the locations
MarkLocation(rose, loc) ==
    LET parts     == [k \in DOMAIN loc.val |-> Lower(loc.val[k])[1]]
        aspect    == IF Len(parts) >= 2 THEN DictGet(ASPECT_MAP, parts[1]) ELSE None
        elevation == IF Len(parts) >= 2 THEN DictGet(ELEVATION_MAP, parts[2]) ELSE None
    IN  IF aspect # None /\ elevation # None /\ ValueOf(aspect) \in DOMAIN rose
        THEN DictSet(rose, ValueOf(aspect),
                     DictSet(rose[ValueOf(aspect)], ValueOf(elevation), TRUE))
        ELSE rose

RECURSIVE MarkLocations(_, _)
MarkLocations(rose, locs) ==
    IF locs = <<>> THEN rose
    ELSE MarkLocations(MarkLocation(rose, Head(locs)), Tail(locs))

\* parse_locations_to_rose raises: the locations cannot be iterated, or an entry of
\* the list has no lower()
LocationsRaise(locations) ==
    \/ NotIterable(locations)
    \/ locations.t = "list" /\ \E k \in DOMAIN locations.val : locations.val[k].t # "str"

\* lines 85-109 (a character of a text and a key of a dict have less than 2 parts)
parse_locations_to_rose(locations) ==
    IF locations.t = "list" THEN MarkLocations(create_empty_rose, locations.val)
    ELSE create_empty_rose

\* the payload's entries of 'danger' that the loop of lines 314-317 reads: up to
\* the first entry whose valid_day is 'current'
IsCurrent(d) == d.t = "dict" /\ Get(d, "valid_day", JNull) = JStr(<<L("current")>>)

DangerEntries(data) ==
    LET danger == Get(data, "danger", JList(<<>>))
        cur    == {k \in DOMAIN danger.val : IsCurrent(danger.val[k])}
    IN  IF danger.t # "list" THEN <<>>
        ELSE IF cur = {} THEN danger.val
        ELSE SubSeq(danger.val, 1, SetMin(cur))

\* lines 313-320 raise: 'danger' cannot be iterated, or an entry that is read has
\* no get()
DangerRaises(data) ==
    LET danger == Get(data, "danger", JList(<<>>))
    IN  \/ NotIterable(danger)
        \/ danger.t \in {"str", "dict"} /\ Truthy(danger)
        \/ \E k \in DOMAIN DangerEntries(data) : DangerEntries(data)[k].t # "dict"

\* lines 313-320
danger_current(data) ==
    LET danger  == Get(data, "danger", JList(<<>>))
        entries == DangerEntries(data)
    IN  IF entries # <<>> /\ IsCurrent(entries[Len(entries)]) THEN entries[Len(entries)]
        ELSE IF Truthy(danger) THEN danger.val[1]
        ELSE JDict(<<>>)

\* the words of a text joined by "_": text.lower().replace(' ', '_')
RECURSIVE Underscored(_)
Underscored(toks) ==
    IF toks = <<>> THEN ""
    ELSE IF Len(toks) = 1 THEN toks[1][1]
    ELSE toks[1][1] \o (IF Gap(toks[1], toks[2]) = 1 THEN "_" ELSE "")
         \o Underscored(Tail(toks))

\* f"{x}" of a text of digits, an integer and None
Formatted(x) ==
    CASE x.t = "str" -> Underscored(x.val)
      [] x.t = "int" -> ToString(x.val)
      [] x.t = "null" -> "None"
      [] OTHER -> "?"

\* lines 333-339
ApiSize(prob) ==
    LET size_range == Get(prob, "size", JList(<<JStr(<<S("1")>>), JStr(<<S("2")>>)>>))
    IN  IF size_range.t = "list" /\ Len(size_range.val) >= 2
        THEN "D" \o Formatted(size_range.val[1]) \o "-" \o Formatted(size_range.val[2])
        ELSE "D2"

\* lines 344-348
ApiDetails(prob) ==
    LET media == Get(prob, "media", JNull)
    IN  IF Truthy(media) /\ media.t = "dict" THEN Get(media, "caption", JStr(<<>>))
        ELSE None

\* lines 327-342 raise for one problem
ProblemRaises(prob) ==
    \/ prob.t # "dict"
    \/ /\ prob.t = "dict"
       /\ \/ LocationsRaise(Get(prob, "location", JList(<<>>)))
          \/ Get(prob, "likelihood", JStr(<<L("possible")>>)).t # "str"
          \/ Get(prob, "name", JStr(<<T("unknown")>>)).t # "str"

\* lines 327-357: the problem of entry number n (1-based)
ApiProblem(prob, n) ==
    [ problem_number |-> n,
      problem_type |-> Underscored(Get(prob, "name", JStr(<<T("unknown")>>)).val),
      likelihood |-> LineTitle(Get(prob, "likelihood", JStr(<<L("possible")>>)).val),
      size |-> ApiSize(prob),
      aspect_elevation_rose |-> parse_locations_to_rose(Get(prob, "location", JList(<<>>))),
      details |-> ApiDetails(prob) ]

\* lines 326-357 raise
ProblemsRaise(data) ==
    LET probs == Get(data, "forecast_avalanche_problems", JList(<<>>))
    IN  \/ NotIterable(probs)
        \/ probs.t \in {"str", "dict"} /\ Truthy(probs)
        \/ probs.t = "list" /\ \E k \in DOMAIN probs.val : ProblemRaises(probs.val[k])

ApiProblems(data) ==
    LET probs == Get(data, "forecast_avalanche_problems", JList(<<>>))
    IN  IF probs.t = "list" THEN [k \in DOMAIN probs.val |-> ApiProblem(probs.val[k], k)]
        ELSE <<>>

\* the tokens of a text with markup: tags, the entity of a blank, and in the
\* cleaned text the line feed
TagP     == S("<p>")
TagEndP  == S("</p>")
TagBr    == S("<br>")
TagB     == S("<b>")
TagEndB  == S("</b>")
Nbsp     == S("&nbsp;")
LineFeed == S("line-feed")
IsTag(tok) == tok \in {TagP, TagEndP, TagBr, TagB, TagEndB}

RECURSIVE CleanTags(_)
\* lines 369-374: the substitutions of the tags, in the order of the code
CleanTags(toks) ==
    IF toks = <<>> THEN <<>>
    ELSE IF Head(toks) = TagEndP /\ Len(toks) >= 2 /\ toks[2] = TagP
    THEN <<LineFeed, LineFeed>> \o CleanTags(Tail(Tail(toks)))
    ELSE IF Head(toks) = TagBr THEN <<LineFeed>> \o CleanTags(Tail(toks))
    ELSE IF Head(toks) = TagP THEN CleanTags(Tail(toks))
    ELSE IF Head(toks) = TagEndP THEN <<LineFeed, LineFeed>> \o CleanTags(Tail(toks))
    ELSE IF IsTag(Head(toks)) THEN CleanTags(Tail(toks))
    ELSE <<Head(toks)>> \o CleanTags(Tail(toks))

RECURSIVE SqueezeFeeds(_)
\* line 377: 3 line feeds and more are 2
SqueezeFeeds(toks) ==
    IF Len(toks) >= 3 /\ toks[1] = LineFeed /\ toks[2] = LineFeed /\ toks[3] = LineFeed
    THEN SqueezeFeeds(Tail(toks))
    ELSE IF toks = <<>> THEN <<>>
    ELSE <<Head(toks)>> \o SqueezeFeeds(Tail(toks))

RECURSIVE StripText(_)
\* line 379-380: the entity is a blank, and the blanks and line feeds at both ends go
StripText(toks) ==
    IF toks # <<>> /\ Head(toks) \in {LineFeed, Nbsp} THEN StripText(Tail(toks))
    ELSE IF toks # <<>> /\ toks[Len(toks)] \in {LineFeed, Nbsp}
    THEN StripText(SubSeq(toks, 1, Len(toks) - 1))
    ELSE toks

\* lines 365-380
clean_html(text) ==
    IF ~Truthy(text) THEN <<>>
    ELSE LET cleaned == StripText(SqueezeFeeds(CleanTags(text.val)))
         IN  SelectSeq(cleaned, LAMBDA tok : tok # Nbsp)

\* re.sub on a value that is no text raises
CleanRaises(text) == Truthy(text) /\ text.t # "str"

\* lines 360-361
ApiIssueDate(data) ==
    LET published == Get(data, "published_time", JStr(<<>>))
    IN  IF Truthy(published) THEN TakeChars(published.val, 10) ELSE <<S(Today)>>

\* published[:10] raises for a number
DateRaises(data) ==
    LET published == Get(data, "published_time", JStr(<<>>))
    IN  Truthy(published) /\ published.t \in {"int", "dict"}

\* lines 388-396: the weather product is fetched and parsed when the payload names
\* one; fetched is what get_weather_by_id and parse_weather_data made of it, None
\* when either failed
ApiWeather(data, fetched) ==
    LET weather_data_ref == Get(data, "weather_data", JDict(<<>>))
    IN  IF weather_data_ref.t = "dict"
           /\ Truthy(Get(weather_data_ref, "weather_product_id", JNull))
        THEN fetched
        ELSE None

\* parse_forecast raises, and line 413 makes None of it
ParseForecastRaises(data, z) ==
    \/ DangerRaises(data)
    \/ ProblemsRaise(data)
    \/ DateRaises(data)
    \/ CleanRaises(Get(data, "bottom_line", JStr(<<>>)))
    \/ CleanRaises(Get(data, "hazard_discussion", JStr(<<>>)))
    \/ z \notin DOMAIN ZONES

\* lines 309-417
parse_forecast(data, z, fetched) ==
    IF ParseForecastRaises(data, z) THEN None
    ELSE [ zone |-> z,
           zone_name |-> ZoneName(z),
           forecast_id |-> Get(data, "id", JInt(0)),
           issue_date |-> ApiIssueDate(data),
           valid_date |-> ApiIssueDate(data),
           danger_alpine |-> Get(danger_current(data), "upper", JInt(0)),
           danger_treeline |-> Get(danger_current(data), "middle", JInt(0)),
           danger_below_treeline |-> Get(danger_current(data), "lower", JInt(0)),
           bottom_line |-> clean_html(Get(data, "bottom_line", JStr(<<>>))),
           discussion |-> clean_html(Get(data, "hazard_discussion", JStr(<<>>))),
           problems |-> ApiProblems(data),
           forecast_url |-> <<"https://cbavalanchecenter.org/forecasts/#/forecast",
                              ZONES[z], Get(data, "id", JNull)>>,
           weather |-> ApiWeather(data, fetched) ]

-----------------------------------------------------------------------------
(* cbac_scraper.py: the problems of extract_forecast_data *)

\* lines 339-353, in list order
problem_types ==
    << <<"persistent", "slab", "persistent_slab">>, <<"wind", "slab", "wind_slab">>,
       <<"storm", "slab", "storm_slab">>, <<"wet", "slab", "wet_slab">>,
       <<"loose", "dry", "loose_dry">>, <<"loose", "wet", "loose_wet">>,
       <<"cornice", "", "cornice">>, <<"glide", "", "glide">> >>

TypePattern(n) ==
    IF problem_types[n][2] = "" THEN <<L(problem_types[n][1])>>
    ELSE <<L(problem_types[n][1]), L(problem_types[n][2])>>

\* lines 356-361, in list order
likelihood_levels ==
    << <<L("unlikely")>>, <<L("possible")>>, <<L("likely")>>,
       <<L("very"), L("likely")>>, <<L("almost"), L("certain")>> >>

\* re.search(r'D(\d)(?:-D?(\d))?', problem_text): the sizes a text is written with
\* are tokens of their own, and group(0) is the token
IsSizeToken(tok) == tok \in {S("D1"), S("D2"), S("D3"), S("D2-D3"), S("D2-3"), S("D7")}

\* re.search(rf'\b{aspect}\b', problem_text): the aspect is a token of the text
AspectMentioned(aspect, problem_text) ==
    \E k \in DOMAIN problem_text :
        /\ problem_text[k][2] \in {"U", "T"}
        /\ problem_text[k][2] = "T" => Len(problem_text[k][1]) = 1
        /\ Upper(problem_text[k]) = Upper(L(aspect))

AspectCodes == [N |-> "n", NE |-> "ne", E |-> "e", SE |-> "se", S |-> "s", SW |-> "sw",
                W |-> "w", NW |-> "nw"]

\* lines 370-385
ExtractRose(problem_text) ==
    [ a \in Aspects |->
        IF AspectMentioned(AspectCodes[a], problem_text)
        THEN [e \in Elevations |-> TRUE]
        ELSE [e \in Elevations |-> FALSE] ]

\* line 393
ExtractDetailsCap == 500

\* lines 334-396: the problem of element number n (1-based)
ExtractProblem(problem_text, n) ==
    LET low    == LineLower(problem_text)
        types  == {t \in DOMAIN problem_types : Contains(low, TypePattern(t))}
        levels == {l \in DOMAIN likelihood_levels : Contains(low, likelihood_levels[l])}
        sizes  == {k \in DOMAIN problem_text : IsSizeToken(problem_text[k])}
    IN  [ problem_number |-> n,
          problem_type |-> IF types = {} THEN "unknown" ELSE problem_types[SetMin(types)][3],
          likelihood |-> IF levels = {} THEN <<T("possible")>>
                         ELSE LineTitle(likelihood_levels[SetMin(levels)]),
          size |-> IF sizes = {} THEN "D2" ELSE problem_text[SetMin(sizes)][1],
          aspect_elevation_rose |-> ExtractRose(problem_text),
          details |-> IF problem_text # <<>> THEN TakeChars(problem_text, ExtractDetailsCap)
                      ELSE None ]

RECURSIVE ExtractProblems(_, _)
\* lines 330-398: the loop over the elements, from element n on; an element whose
\* text cannot be read (None here) is passed over
ExtractProblems(elements, n) ==
    IF n > Len(elements) THEN <<>>
    ELSE (IF elements[n] = None THEN <<>>
          ELSE <<ExtractProblem(ValueOf(elements[n]), n)>>)
         \o ExtractProblems(elements, n + 1)

-----------------------------------------------------------------------------
(* cbac_api.py: fetch_forecasts *)

\* line 125
FetchDiscussion ==
    <<T("detailed"), L("forecast"), L("discussion"), L("available"), L("at"), U("cbac"),
      L("website"), S(".")>>
\* line 113
DefaultCenter == <<T("crested"), T("butte"), T("avalanche"), T("center")>>

\* lines 91-129 raise for one feature: a feature or its properties without get(),
\* a date that cannot be sliced, a name without lower(), a danger level that is
\* not a number
FeatureRaises(feature) ==
    \/ feature.t # "dict"
    \/ /\ feature.t = "dict"
       /\ LET props == Get(feature, "properties", JDict(<<>>))
          IN  \/ props.t # "dict"
              \/ /\ props.t = "dict"
                 /\ \/ \E k \in {"start_date", "end_date"} :
                          /\ Truthy(Get(props, k, JStr(<<>>)))
                          /\ Get(props, k, JStr(<<>>)).t \in {"int", "dict"}
                    \/ Get(props, "name", JStr(<<>>)).t # "str"
                    \/ Get(props, "danger_level", JInt(2)).t # "int"

\* lines 91-129: the Forecast of one feature
FeatureForecast(feature) ==
    LET props        == Get(feature, "properties", JDict(<<>>))
        start_date   == Get(props, "start_date", JStr(<<>>))
        end_date     == Get(props, "end_date", JStr(<<>>))
        issue_date   == IF Truthy(start_date) THEN TakeChars(start_date.val, 10)
                        ELSE <<S(Today)>>
        zone_name    == Get(props, "name", JStr(<<>>))
        danger_level == Get(props, "danger_level", JInt(2))
    IN  [ id |-> IF HasKey(feature, "id") THEN Formatted(feature.val.id) ELSE "",
          zone |-> IF Contains(LineLower(zone_name.val), <<L("northwest")>>)
                   THEN "northwest" ELSE "southeast",
          zone_name |-> zone_name,
          center |-> Get(props, "center", JStr(DefaultCenter)),
          issue_date |-> issue_date,
          valid_date |-> issue_date,
          expires_date |-> IF Truthy(end_date) THEN TakeChars(end_date.val, 10) ELSE <<>>,
          danger_level |-> danger_level,
          danger_text |-> Get(props, "danger", JStr(<<L("moderate")>>)),
          danger_alpine |-> danger_level,
          danger_treeline |-> danger_level,
          danger_below_treeline |-> JInt(Max(1, danger_level.val - 1)),
          travel_advice |-> Get(props, "travel_advice", JStr(<<>>)),
          bottom_line |-> Get(props, "travel_advice", JStr(<<>>)),
          discussion |-> FetchDiscussion,
          problems |-> <<>>,
          forecast_url |-> Get(props, "link", JStr(<<>>)),
          created_at |-> Today ]

\* lines 90-131 raise an exception that lines 135-140 do not catch
FetchRaises(data) ==
    LET features == Get(data, "features", JList(<<>>))
    IN  \/ NotIterable(features)
        \/ features.t \in {"str", "dict"} /\ Truthy(features)
        \/ features.t = "list" /\ \E k \in DOMAIN features.val : FeatureRaises(features.val[k])

\* lines 89-133
fetch_forecasts(data) ==
    LET features == Get(data, "features", JList(<<>>))
    IN  IF features.t = "list"
        THEN [k \in DOMAIN features.val |-> FeatureForecast(features.val[k])]
        ELSE <<>>

-----------------------------------------------------------------------------
(* The entry points *)

parse_vars == <<lines, i, in_danger_section, danger_section_done, danger_alpine,
                danger_treeline, danger_btl>>

\* the variables of parse_page_text before it is called
Idle ==
    /\ lines = <<>>
    /\ i = 0
    /\ in_danger_section = FALSE
    /\ danger_section_done = FALSE
    /\ danger_alpine = 0
    /\ danger_treeline = 0
    /\ danger_btl = 0

\* scrape_forecast, lines 377-403: an unknown zone returns None; else the page is
\* loaded, which the driver may fail with an exception, and its text is parsed
ScrapeForecast ==
    /\ pc = "scrape_forecast"
    /\ IF zone \notin FORECAST_ZONES
       THEN /\ result' = None
            /\ pc' = "done"
            /\ UNCHANGED parse_vars
       ELSE \/ /\ pc' = "raised"
               /\ UNCHANGED <<result, parse_vars>>
            \/ /\ \E body_text \in args.pages :
                     /\ lines' = Split(body_text)
                     /\ i' = 1
                     /\ in_danger_section' = FALSE
                     /\ danger_section_done' = FALSE
                     /\ danger_alpine' = DefaultAlpine
                     /\ danger_treeline' = DefaultTreeline
                     /\ danger_btl' = DefaultBelowTreeline
               /\ pc' = "danger"
               /\ UNCHANGED result
    /\ UNCHANGED <<store, entry, zone, args>>

\* parse_forecast, lines 309-417
ParseForecast ==
    /\ pc = "parse_forecast"
    /\ result' = parse_forecast(args.data, zone, args.fetched)
    /\ pc' = "done"
    /\ UNCHANGED <<store, entry, zone, args, parse_vars>>

\* parse_locations_to_rose, lines 85-109
ParseLocationsToRose ==
    /\ pc = "parse_locations_to_rose"
    /\ IF LocationsRaise(args.locations)
       THEN pc' = "raised" /\ UNCHANGED result
       ELSE pc' = "done" /\ result' = parse_locations_to_rose(args.locations)
    /\ UNCHANGED <<store, entry, zone, args, parse_vars>>

\* extract_forecast_data, lines 330-398: the problems of the page's problem elements
ExtractForecastData ==
    /\ pc = "extract_forecast_data"
    /\ result' = [problems |-> ExtractProblems(args.elements, 1)]
    /\ pc' = "done"
    /\ UNCHANGED <<store, entry, zone, args, parse_vars>>

\* fetch_forecasts, lines 77-140: a request that fails, and a body that is not
\* JSON, give the empty list; the features of the body give the Forecasts
FetchForecasts ==
    /\ pc = "fetch_forecasts"
    /\ IF args.response = None
       THEN pc' = "done" /\ result' = <<>>
       ELSE IF FetchRaises(ValueOf(args.response))
       THEN pc' = "raised" /\ UNCHANGED result
       ELSE pc' = "done" /\ result' = fetch_forecasts(ValueOf(args.response))
    /\ UNCHANGED <<store, entry, zone, args, parse_vars>>

-----------------------------------------------------------------------------
(* save_to_supabase.py: the key message and the travel advice *)

\* re.split(r'[.!]', text): the sentences of a text
SentenceEnds == {S("."), S("!")}
RECURSIVE Sentences(_)
Sentences(text) ==
    LET ends == {k \in 1..Len(text) : text[k] \in SentenceEnds}
    IN  IF ends = {} THEN <<text>>
        ELSE LET k == CHOOSE e \in ends : \A f \in ends : e <= f
             IN  <<SubSeq(text, 1, k - 1)>> \o Sentences(SubSeq(text, k + 1, Len(text)))

\* \s+\w+ after token k: a blank and then a word or a number
WordFollows(s, k) ==
    /\ k + 1 <= Len(s)
    /\ Gap(s[k], s[k + 1]) = 1
    /\ IsWord(s[k + 1])

\* \s+ and then one of the words after token k
OneOfFollows(s, k, words) ==
    /\ k + 1 <= Len(s)
    /\ Gap(s[k], s[k + 1]) = 1
    /\ \E w \in words : PrefixOf(L(w), s[k + 1])

\* lines 153-162: one of key_patterns is found in the sentence, in lower case
KeyPatternFound(s) ==
    \E k \in 1..Len(s) :
        \/ SuffixOf(L("expect"), s[k]) /\ WordFollows(s, k)
        \/ SuffixOf(L("avoid"), s[k]) /\ WordFollows(s, k)
        \/ SuffixOf(L("stay"), s[k]) /\ OneOfFollows(s, k, {"below", "under", "off", "away"})
        \/ SuffixOf(L("do"), s[k]) /\ OneOfFollows(s, k, {"not"})
        \/ /\ SuffixOf(L("give"), s[k]) /\ OneOfFollows(s, k, {"yourself"})
           /\ \E m \in (k + 2)..Len(s) : InWord(L("margin"), s[m])
        \/ InWord(L("safest"), s[k]) /\ \E m \in (k + 1)..Len(s) : InWord(L("terrain"), s[m])
        \/ OccursAt(<<L("you"), L("can"), L("trigger")>>, s, k)
        \/ SuffixOf(L("dangerous"), s[k]) /\ WordFollows(s, k)

KeyMinLen   == 15
KeyPlainLen == 30
AdviceCap   == 300

\* one pass: the first sentence that has a key pattern or is a plain one
extract_key_messageOnePass(bottom_line, discussion) ==
    LET sentences == Sentences(CombinedText(bottom_line, discussion))
        either == {k \in 1..Len(sentences) :
                      \/ /\ LineLen(sentences[k]) >= KeyMinLen
                         /\ KeyPatternFound(LineLower(sentences[k]))
                      \/ LineLen(sentences[k]) > KeyPlainLen}
    IN  IF either # {} THEN Some(TakeChars(sentences[SetMin(either)], AdviceCap))
        ELSE None

\* lines 148-178
extract_key_message(bottom_line, discussion) ==
    LET sentences == Sentences(CombinedText(bottom_line, discussion))
        keyed == {k \in 1..Len(sentences) :
                     /\ LineLen(sentences[k]) >= KeyMinLen
                     /\ KeyPatternFound(LineLower(sentences[k]))}
        plain == {k \in 1..Len(sentences) : LineLen(sentences[k]) > KeyPlainLen}
    IN  IF keyed # {} THEN Some(TakeChars(sentences[SetMin(keyed)], AdviceCap))
        ELSE IF plain # {} THEN Some(TakeChars(sentences[SetMin(plain)], AdviceCap))
        ELSE None

\* the first five of travel_patterns, lines 185-191, without their tail [^.]+\.
travel_patterns ==
    << <<L("the"), L("safest")>>, <<L("you"), L("can"), L("reduce")>>, <<L("avoid")>>,
       <<L("lower"), L("elevation")>>, <<L("wind"), L("protected")>> >>

\* the keyword ends where token e ends: the tail [^.]+ has to find its character
\* in a later token
EndsToken(kw, tok) == kw[1] = tok[1] \/ <<kw[1], tok[1]>> \in ProperSuffix

\* [^.]+\. after a keyword that ends in token e: the place of the first period
\* after it, 0 when there is none or nothing lies between
PeriodAfter(text, kw, e) ==
    LET ds == {d \in (e + 1)..Len(text) : text[d] = S(".")}
    IN  IF ds = {} THEN 0
        ELSE IF SetMin(ds) = e + 1 /\ EndsToken(kw, text[e]) THEN 0
        ELSE SetMin(ds)

\* re.search of one of the first five patterns, re.IGNORECASE: the leftmost match
PatternMatch(pat, text) ==
    LET lower == LineLower(text)
        ks == {k \in 1..Len(text) :
                  /\ OccursAt(pat, lower, k)
                  /\ PeriodAfter(lower, pat[Len(pat)], k + Len(pat) - 1) # 0}
    IN  IF ks = {} THEN None
        ELSE Some(SubSeq(text, SetMin(ks),
                         PeriodAfter(lower, pat[Len(pat)], SetMin(ks) + Len(pat) - 1)))

\* re.search(r'(best.*riding[^.]+\.)'): the leftmost 'best', the last 'riding'
\* after it that a period follows, and the text up to that period
BestRidingMatch(text) ==
    LET lower == LineLower(text)
        ridings(k) == {m \in (k + 1)..Len(text) :
                          /\ InWord(L("riding"), lower[m])
                          /\ PeriodAfter(lower, L("riding"), m) # 0}
        ks == {k \in 1..Len(text) : InWord(L("best"), lower[k]) /\ ridings(k) # {}}
    IN  IF ks = {} THEN None
        ELSE Some(SubSeq(text, SetMin(ks),
                         PeriodAfter(lower, L("riding"), SetMax(ridings(SetMin(ks))))))

\* lines 181-199
extract_travel_advice(bottom_line, discussion) ==
    LET text == CombinedText(bottom_line, discussion)
        hits == {n \in 1..Len(travel_patterns) : PatternMatch(travel_patterns[n], text) # None}
    IN  IF hits # {}
        THEN Some(TakeChars(ValueOf(PatternMatch(travel_patterns[SetMin(hits)], text)),
                            AdviceCap))
        ELSE IF BestRidingMatch(text) # None
        THEN Some(TakeChars(ValueOf(BestRidingMatch(text)), AdviceCap))
        ELSE None

-----------------------------------------------------------------------------
(* save_to_supabase.py: save_forecast *)

\* lines 50-56
DANGER_TEXT == <<"Low", "Moderate", "Considerable", "High", "Extreme">>

\* the days forecasts are published on, and the published_time of a forecast of
\* day d
Calendar == <<"2026-01-13", "2026-01-14", "2026-01-15">>
Published(d) == <<S(Calendar[d]), S("T13:00:00Z")>>
PublishedEarly(d) == <<S(Calendar[d]), S("T07:00:00Z")>>
\* the valid_date parse_forecast gives a forecast of day d
DateOf(d) == TakeChars(Published(d), 10)
DayBefore == <<S("2026-01-12")>>

\* lines 211-213: strptime, timedelta(days=1) and strftime
PrevDate(valid_date) ==
    LET ds == {d \in 2..Len(Calendar) : DateOf(d) = valid_date}
    IN  IF ds = {} THEN DayBefore ELSE DateOf(SetMin(ds) - 1)

\* max() of three numbers
Max3(a, b, c) == Max(a, Max(b, c))

\* the rows of forecasts with the zone and the date
ForecastRows(st, z, date) ==
    {k \in DOMAIN st.forecasts :
        st.forecasts[k].zone_id = z /\ st.forecasts[k].valid_date = date}

\* the rows of avalanche_problems of a forecast
ProblemRows(st, forecast_id) ==
    {k \in DOMAIN st.avalanche_problems :
        st.avalanche_problems[k].forecast_id = forecast_id}

\* lines 202-256.  The query of lines 226-228 asks for the problems whose
\* forecast_id is "", as the row selected has no id column; whether the database
\* answers it or rejects it depends on the type of the column, which the program
\* does not fix: when it is rejected, line 254 makes None of it.
get_previous_forecast(st, z, valid_date, probe_raises) ==
    LET rows == ForecastRows(st, z, PrevDate(valid_date))
    IN  IF rows = {} \/ probe_raises THEN None
        ELSE LET prev == st.forecasts[SetMin(rows)]
             IN  [ danger_level |-> Max3(prev.danger_alpine.val, prev.danger_treeline.val,
                                         prev.danger_below_treeline.val),
                   problem_count |-> Cardinality(ProblemRows(st, prev.id)) ]

\* line 275 raises: max() of a danger that is None
SaveRaises(forecast) ==
    \E x \in {forecast.danger_alpine, forecast.danger_treeline,
              forecast.danger_below_treeline} : x.t # "int"

\* dict.get of a record
RecordGet(r, k) == IF k \in DOMAIN r THEN r[k] ELSE None

\* lines 306-326: the row of the forecast
ForecastData(forecast, danger_level, trend, id) ==
    [ id |-> id,
      zone_id |-> forecast.zone,
      zone_name |-> forecast.zone_name,
      issue_date |-> forecast.issue_date,
      valid_date |-> forecast.valid_date,
      danger_level |-> JInt(danger_level),
      danger_text |-> IF danger_level \in DOMAIN DANGER_TEXT THEN DANGER_TEXT[danger_level]
                      ELSE "Unknown",
      danger_alpine |-> forecast.danger_alpine,
      danger_treeline |-> forecast.danger_treeline,
      danger_below_treeline |-> forecast.danger_below_treeline,
      bottom_line |-> forecast.bottom_line,
      discussion |-> forecast.discussion,
      forecast_url |-> forecast.forecast_url,
      trend |-> trend,
      key_message |-> extract_key_message(forecast.bottom_line, forecast.discussion),
      travel_advice |-> extract_travel_advice(forecast.bottom_line, forecast.discussion),
      raw_data |-> [scraped_at |-> Today, weather |-> forecast.weather] ]

\* lines 350-358: the row of a problem
ProblemData(problem, forecast_id) ==
    [ forecast_id |-> forecast_id,
      problem_number |-> problem.problem_number,
      problem_type |-> problem.problem_type,
      likelihood |-> problem.likelihood,
      size |-> problem.size,
      aspect_elevation_rose |-> problem.aspect_elevation_rose,
      details |-> problem.details ]

WeatherMetrics ==
    {"temperature", "cloud_cover", "wind_speed", "wind_direction", "snowfall_12hr",
     "snowfall_24hr"}

\* lines 364-375: the row of the weather
WeatherData(forecast) ==
    [ zone_id |-> forecast.zone,
      forecast_date |-> forecast.valid_date,
      metrics |-> [k \in WeatherMetrics |-> RecordGet(forecast.weather, k)],
      raw_text |-> IF "discussion" \in DOMAIN forecast.weather
                   THEN forecast.weather.discussion ELSE "" ]

\* an insert in the place of the upsert: the row is always added
UpsertAsInsert(rows, row, same) == Append(rows, row)

\* upsert(..., on_conflict=key): the row takes the place of the row with its key,
\* and is added when there is none
Upsert(rows, row, same) ==
    IF same = {} THEN Append(rows, row)
    ELSE [k \in DOMAIN rows |-> IF k \in same THEN row ELSE rows[k]]

\* lines 264-391: the id that is returned, None for an exception, and the tables
\* as the call leaves them
save_forecast(st, forecast, probe_raises) ==
    IF SaveRaises(forecast) THEN [id |-> None, store |-> st]
    ELSE
    LET danger_level == Max3(forecast.danger_alpine.val, forecast.danger_treeline.val,
                             forecast.danger_below_treeline.val)
        prev_forecast == get_previous_forecast(st, forecast.zone, forecast.valid_date,
                                               probe_raises)
        current_problems == Len(forecast.problems)
        trend == calculate_trend(
                     danger_level, current_problems,
                     IF prev_forecast = None THEN None ELSE Some(prev_forecast.danger_level),
                     IF prev_forecast = None THEN None ELSE Some(prev_forecast.problem_count),
                     forecast.bottom_line, forecast.discussion)
        same == ForecastRows(st, forecast.zone, forecast.valid_date)
        forecast_id == IF same = {} THEN Len(st.forecasts) + 1
                       ELSE st.forecasts[SetMin(same)].id
        kept == SelectSeq(st.avalanche_problems, LAMBDA row : row.forecast_id # forecast_id)
        made == [k \in DOMAIN forecast.problems |->
                    ProblemData(forecast.problems[k], forecast_id)]
        sameday == {k \in DOMAIN st.weather_forecasts :
                       /\ st.weather_forecasts[k].zone_id = forecast.zone
                       /\ st.weather_forecasts[k].forecast_date = forecast.valid_date}
    IN  [ id |-> Some(forecast_id),
          store |->
            [ forecasts |-> Upsert(st.forecasts,
                                   ForecastData(forecast, danger_level, trend, forecast_id),
                                   same),
              avalanche_problems |-> kept \o made,
              weather_forecasts |->
                  IF forecast.weather # None
                  THEN Upsert(st.weather_forecasts, WeatherData(forecast), sameday)
                  ELSE st.weather_forecasts ] ]

\* save_forecast, lines 264-391
SaveForecast ==
    /\ pc = "save_forecast"
    /\ result' = save_forecast(store, args.forecast, args.probe_raises).id
    /\ store' = save_forecast(store, args.forecast, args.probe_raises).store
    /\ pc' = "done"
    /\ UNCHANGED <<entry, zone, args, parse_vars>>

-----------------------------------------------------------------------------
(* cbac_api_scraper.py: scrape_zone_forecasts *)

\* the published times in the order of their texts
TimeOrder ==
    << PublishedEarly(1), Published(1), PublishedEarly(2), Published(2),
       PublishedEarly(3), Published(3) >>
\* the place of x.get('published_time', '') in the order of the texts, '' first
TimeRank(product) ==
    LET t == Get(product, "published_time", JStr(<<>>))
    IN  IF t.val = <<>> THEN 0 ELSE CHOOSE n \in 1..Len(TimeOrder) : TimeOrder[n] = t.val

\* lines 131-135: the product has the zone among its forecast_zone
InZone(product, zone_name) ==
    LET zones_list == Get(product, "forecast_zone", JList(<<>>))
    IN  \E k \in DOMAIN zones_list.val :
            Get(zones_list.val[k], "zone_id", JStr(<<>>)) = JStr(<<S(zone_name)>>)

\* ZONES.get(zone, zone)
ZoneId(z) == IF z \in DOMAIN ZONES THEN ZONES[z] ELSE z

\* the products as the response lists them
get_forecast_listAsListed(z, days, data) ==
    LET forecasts == SelectSeq(data, LAMBDA p : InZone(p, ZoneId(z)))
    IN  SubSeq(forecasts, 1, Min(days, Len(forecasts)))

RECURSIVE SortedByTime(_)
\* line 138: sort(key=published_time, reverse=True), which keeps the order of the
\* products of equal times
SortedByTime(products) ==
    IF products = <<>> THEN <<>>
    ELSE LET rest  == SortedByTime(SubSeq(products, 1, Len(products) - 1))
             x     == products[Len(products)]
             ahead == {k \in 1..Len(rest) : TimeRank(rest[k]) >= TimeRank(x)}
             n     == IF ahead = {} THEN 0 ELSE SetMax(ahead)
         IN  SubSeq(rest, 1, n) \o <<x>> \o SubSeq(rest, n + 1, Len(rest))

\* lines 112-146; data is the list of the decoded response (a request that fails
\* gives the empty list, as an empty response does)
get_forecast_list(z, days, data) ==
    LET forecasts == SelectSeq(data, LAMBDA p : InZone(p, ZoneId(z)))
        sorted    == SortedByTime(forecasts)
    IN  SubSeq(sorted, 1, Min(days, Len(sorted)))

\* lines 433-441: the Forecast of an item of the list, None when the item has no
\* id, its payload could not be fetched, or parse_forecast made None of it; details
\* is what get_forecast_by_id returns for each id
ItemForecast(item, z, details) ==
    LET forecast_id == Get(item, "id", JNull)
    IN  IF ~Truthy(forecast_id) THEN None
        ELSE IF details[forecast_id.val] = None THEN None
        ELSE parse_forecast(details[forecast_id.val], z, None)

\* line 444
IsEmptyForecast(forecast) ==
    forecast.danger_alpine = JInt(0) /\ forecast.danger_treeline = JInt(0)

RECURSIVE ScrapeLoop(_, _, _, _, _, _)
\* lines 430-458: the loop from item k of the list on
ScrapeLoop(forecast_list, k, forecasts, z, days, details) ==
    IF k > Len(forecast_list) THEN forecasts
    ELSE LET forecast == ItemForecast(forecast_list[k], z, details)
             seen_dates == {forecasts[n].valid_date : n \in DOMAIN forecasts}
         IN  IF forecast = None \/ IsEmptyForecast(forecast)
                \/ forecast.valid_date \in seen_dates
             THEN ScrapeLoop(forecast_list, k + 1, forecasts, z, days, details)
             ELSE IF Len(forecasts) + 1 >= days THEN Append(forecasts, forecast)
             ELSE ScrapeLoop(forecast_list, k + 1, Append(forecasts, forecast), z, days,
                             details)

\* lines 420-460
scrape_zone_forecasts(z, days, data, details) ==
    ScrapeLoop(get_forecast_list(z, days * 2, data), 1, <<>>, z, days, details)

ScrapeZoneForecasts ==
    /\ pc = "scrape_zone_forecasts"
    /\ result' = scrape_zone_forecasts(args.zone, args.days, args.data, args.details)
    /\ pc' = "done"
    /\ UNCHANGED <<entry, zone, args, store, parse_vars>>

-----------------------------------------------------------------------------
(* The inputs of the entry points *)

Zones == {"northwest", "southeast", "central"}

\* a run of text of LongTextLen characters, and a line that ends with it
LongTextLen == 1200
LongText == <<"slopes", "L", LongTextLen>>
LongLine == <<T("buried"), L("weak"), L("layers"), L("on"), LongText>>

EntryPages ==
    { <<>>, <<HeadDanger, MarkAbove, Rating(3)>>, <<Problem1, DescPlain>>,
      <<Problem3, Problem1, Problem3>>, <<HeadDanger, MarkNear, Blank, Rating(7)>>,
      <<Problem1, LongLine>> }

\* the entries of a payload's danger list
CurrentDay ==
    JDict([valid_day |-> JStr(<<L("current")>>), upper |-> JInt(3), middle |-> JInt(2),
           lower |-> JInt(1)])
TomorrowDay ==
    JDict([valid_day |-> JStr(<<L("tomorrow")>>), upper |-> JInt(4), middle |-> JInt(3),
           lower |-> JInt(2)])
BareDay ==
    JDict([valid_day |-> Missing, upper |-> JInt(2), middle |-> Missing, lower |-> JNull])

\* a day without a rating, -1, and a value above the scale
UnratedDay ==
    JDict([valid_day |-> JStr(<<L("current")>>), upper |-> JInt(-1), middle |-> JInt(6),
           lower |-> JInt(0)])

DangerValues ==
    { Missing, JNull, JList(<<>>), JList(<<CurrentDay>>), JList(<<TomorrowDay, CurrentDay>>),
      JList(<<BareDay>>), JList(<<JNull>>), JList(<<UnratedDay>>) }

\* a problem of the payload with all its fields, and the problems with one field
\* missing, null or malformed
BaseProblem ==
    JDict([ name |-> JStr(<<T("wind"), T("slab")>>),
            likelihood |-> JStr(<<L("very"), L("likely")>>),
            size |-> JList(<<JStr(<<S("1")>>), JStr(<<S("2")>>)>>),
            location |-> JList(<<JStr(<<L("north"), L("upper")>>)>>),
            media |-> JDict([caption |-> JStr(DescPlain)]) ])

WithField(prob, k, x) == JDict([prob.val EXCEPT ![k] = x])

MixedLocations ==
    JList(<< JStr(<<L("bogus")>>), JStr(<<T("northeast"), L("middle"), L("slopes")>>),
             JStr(<<L("up"), L("lower")>>) >>)

PayloadProblems ==
    {BaseProblem}
    \cup { WithField(BaseProblem, "name", x) :
             x \in {Missing, JNull, JStr(<<T("wet"), T("loose")>>)} }
    \cup { WithField(BaseProblem, "likelihood", x) : x \in {Missing, JNull} }
    \cup { WithField(BaseProblem, "size", x) :
             x \in {Missing, JNull, JList(<<JStr(<<S("2")>>)>>),
                    JList(<<JStr(<<S("3")>>), JStr(<<S("1")>>)>>),
                    JList(<<JStr(<<S("6")>>), JStr(<<S("7")>>)>>)} }
    \cup { WithField(BaseProblem, "location", x) :
             x \in {Missing, JNull, MixedLocations, JList(<<JNull>>)} }
    \cup { WithField(BaseProblem, "media", x) :
             x \in {Missing, JDict([caption |-> JStr(LongLine)])} }

MaxApiProblems == 2

\* "<p>Buried weak layers ...</p><p>Use care</p>"
MarkedText ==
    <<TagP>> \o DescPlain \o <<TagEndP, TagP, TagB>> \o ShortLine \o <<TagEndB, TagEndP>>

Payload(danger, problems, bottom_line) ==
    JDict([ id |-> JInt(7),
            danger |-> danger,
            forecast_avalanche_problems |-> problems,
            published_time |-> JStr(<<S("2026-01-14T13:00:00Z")>>),
            bottom_line |-> bottom_line,
            hazard_discussion |-> JStr(MarkedText),
            weather_data |-> JDict([weather_product_id |-> JInt(9)]) ])

\* payloads with any danger list, and payloads with any list of problems
Payloads ==
    { Payload(d, p, JStr(MarkedText)) :
        d \in DangerValues, p \in {Missing, JNull, JList(<<BaseProblem>>)} }
    \cup { Payload(JList(<<CurrentDay>>), JList(ps), b) :
             ps \in SeqsUpTo(PayloadProblems, MaxApiProblems),
             b \in {Missing, JNull, JStr(MarkedText)} }

MaxLocations == 2
LocationTexts ==
    { <<L("north"), L("upper")>>, <<T("northeast"), L("middle"), L("slopes")>>,
      <<L("south"), L("lower")>>, <<L("north")>>, <<L("up"), L("lower")>>,
      <<L("west"), L("top")>>, <<U("west"), T("upper")>>, <<>> }
LocationLists ==
    { JList([k \in DOMAIN l |-> JStr(l[k])]) : l \in SeqsUpTo(LocationTexts, MaxLocations) }
    \cup { JNull, JList(<<JNull>>) }

MaxProblemWords == 2
ProblemWords ==
    { U("n"), U("ne"), L("ne"), T("wind"), L("slab"), L("unlikely"), S("D2-D3"), S("D7"),
      L("slopes") }
ProblemElements ==
    {None} \cup { Some(t) : t \in SeqsUpTo(ProblemWords, MaxProblemWords) }
\* the problem elements of a page: one element, or two of which the second cannot
\* be read or reads "NE D2-D3"
ElementLists ==
    { <<e>> : e \in ProblemElements }
    \cup { <<e, f>> : e \in ProblemElements, f \in {None, Some(<<U("ne"), S("D2-D3")>>)} }
    \cup { <<Some(LongLine)>> }

\* the features of the map layer: a zone name, an overall danger level, dates
FeatureNames ==
    { JStr(<<T("northwest"), T("mountains")>>), JStr(<<T("southeast"), T("mountains")>>),
      Missing, JNull }
FeatureLevels == { Missing, JNull } \cup { JInt(n) : n \in {-1, 0, 1, 3, 5, 6} }
Feature(name, level, start) ==
    JDict([ id |-> JInt(1),
            properties |->
                JDict([ name |-> name, danger_level |-> level,
                        danger |-> JStr(<<L("considerable")>>),
                        start_date |-> start,
                        end_date |-> JStr(<<S("2026-01-15T13:00:00Z")>>),
                        travel_advice |-> JStr(ShortLine) ]) ])
Features ==
    { Feature(n, l, s) :
        n \in FeatureNames, l \in FeatureLevels,
        s \in {Missing, JStr(<<S("2026-01-14T13:00:00Z")>>)} }
    \cup { JNull, JDict([id |-> Missing, properties |-> Missing]),
           JDict([id |-> JInt(2), properties |-> JNull]) }
\* the responses: none (the request failed), a body without features, a body with
\* one feature, or with two of which the second is a southeast feature of level 3 or
\* has no properties
Responses ==
    { None, Some(JDict([features |-> Missing])), Some(JDict([features |-> JNull])) }
    \cup { Some(JDict([features |-> JList(<<f>>)])) : f \in Features }
    \cup { Some(JDict([features |-> JList(<<f, g>>)])) :
             f \in Features,
             g \in { Feature(JStr(<<T("southeast"), T("mountains")>>), JInt(3), Missing),
                     JDict([id |-> JInt(2), properties |-> JNull]) } }

InitExtract ==
    /\ Idle
    /\ result = None
    /\ store = EmptyStore
    /\ \/ /\ entry = "scrape_forecast" /\ pc = "scrape_forecast"
          /\ zone \in Zones
          /\ args = [pages |-> EntryPages]
       \/ /\ entry = "parse_forecast" /\ pc = "parse_forecast"
          /\ zone \in Zones
          /\ args \in [data : Payloads, fetched : {None, [source |-> "weather"]}]
       \/ /\ entry = "parse_locations_to_rose" /\ pc = "parse_locations_to_rose"
          /\ zone = ""
          /\ args \in [locations : LocationLists]
       \/ /\ entry = "extract_forecast_data" /\ pc = "extract_forecast_data"
          /\ zone \in FORECAST_ZONES
          /\ args \in [elements : ElementLists]
       \/ /\ entry = "fetch_forecasts" /\ pc = "fetch_forecasts"
          /\ zone = ""
          /\ args \in [response : Responses]

\* parse_page_text called with any zone
InitPageZone ==
    /\ pc = "danger"
    /\ entry = "parse_page_text"
    /\ args = None
    /\ \E text \in EntryPages, z \in Zones : StartParse(text, z)

\* the bottom lines of the forecasts that are saved
\* "Avoid steep shaded slopes today."
AvoidLine ==
    <<T("avoid"), L("steep"), L("shaded"), L("slopes"), L("today"), S(".")>>
\* "Storm expected. The safest terrain is lower elevation slopes."
StormLine ==
    <<T("storm"), L("expected"), S("."), T("the"), L("safest"), L("terrain"), L("is"),
      L("lower"), L("elevation"), L("slopes"), S(".")>>
SaveLines == { <<>>, AvoidLine, StormLine }

\* the payload of a forecast published on day d
DatedPayload(d, danger, problems, bottom_line) ==
    JDict([Payload(danger, problems, bottom_line).val EXCEPT
               !["published_time"] = JStr(Published(d))])

\* the Forecasts parse_forecast makes of the payloads of the days of the calendar
SaveForecasts ==
    { parse_forecast(DatedPayload(d, JList(<<day>>), JList(ps), JStr(b)), z, w) :
        d \in 1..Len(Calendar), day \in {CurrentDay, TomorrowDay, UnratedDay, BareDay},
        ps \in {<<>>, <<BaseProblem>>, <<BaseProblem, BaseProblem>>},
        b \in SaveLines, z \in FORECAST_ZONES,
        w \in {None, [source |-> "weather"]} }

RECURSIVE StoreAfter(_)
\* the tables after the forecasts of a list were saved to the empty tables
StoreAfter(forecasts) ==
    IF forecasts = <<>> THEN EmptyStore
    ELSE save_forecast(StoreAfter(SubSeq(forecasts, 1, Len(forecasts) - 1)),
                       forecasts[Len(forecasts)], FALSE).store

\* the forecast of the northwest zone of day d, with its problems
Earlier(d, day, ps) ==
    parse_forecast(DatedPayload(d, JList(<<day>>), JList(ps), JStr(AvoidLine)),
                   "northwest", [source |-> "weather"])

Stores ==
    { StoreAfter(<<>>),
      StoreAfter(<<Earlier(1, CurrentDay, <<BaseProblem>>)>>),
      StoreAfter(<<Earlier(2, TomorrowDay, <<BaseProblem, BaseProblem>>)>>),
      StoreAfter(<<Earlier(1, TomorrowDay, <<>>), Earlier(2, CurrentDay, <<BaseProblem>>)>>) }

\* save_forecast called with a Forecast and the tables of earlier calls
InitSave ==
    /\ Idle
    /\ result = None
    /\ entry = "save_forecast" /\ pc = "save_forecast"
    /\ zone = ""
    /\ store \in Stores
    /\ args \in [forecast : SaveForecasts, probe_raises : BOOLEAN]

NextExtract ==
    \/ ScrapeForecast
    \/ DangerScanStep
    \/ FinishParse
    \/ ParseForecast
    \/ ParseLocationsToRose
    \/ ExtractForecastData
    \/ FetchForecasts
    \/ SaveForecast

SpecExtract == (InitExtract \/ InitPageZone \/ InitSave) /\ [][NextExtract]_vars

-----------------------------------------------------------------------------
(* The payload path *)

ApiDone == pc = "done" /\ entry = "parse_forecast"

\* the problems of the payload, none when the payload has no list of them
PayloadProblemList ==
    LET probs == Get(args.data, "forecast_avalanche_problems", JList(<<>>))
    IN  IF probs.t = "list" THEN probs.val ELSE <<>>

Absent(prob, k) == prob.t = "dict" /\ Get(prob, k, JNull).t = "null"

\* C8: for a known zone parse_forecast returns a Forecast for every payload, and a
\* field of the payload that is missing, null or malformed has its default in it:
\* likelihood Possible, type unknown, size D1-2 or D2, an empty rose, dangers 0.
C8_DegradesFieldByField ==
    ApiDone /\ zone \in FORECAST_ZONES =>
        /\ result # None
        /\ Len(result.problems) = Len(PayloadProblemList)
        /\ \A k \in DOMAIN PayloadProblemList :
              LET prob == PayloadProblemList[k]
                  made == result.problems[k]
              IN  /\ Absent(prob, "likelihood") => made.likelihood = <<T("possible")>>
                  /\ Absent(prob, "name") => made.problem_type = "unknown"
                  /\ Absent(prob, "size") => made.size \in {"D1-2", "D2"}
                  /\ Absent(prob, "location") =>
                        made.aspect_elevation_rose = create_empty_rose
        /\ ~Truthy(Get(args.data, "danger", JNull)) =>
              /\ result.danger_alpine = JInt(0)
              /\ result.danger_treeline = JInt(0)
              /\ result.danger_below_treeline = JInt(0)

\* a payload whose one problem has a null size: the Forecast is made and the size
\* of the problem is D2
C8_Witness ==
    /\ ApiDone /\ zone \in FORECAST_ZONES
    /\ result # None
    /\ Len(PayloadProblemList) = 1
    /\ HasKey(PayloadProblemList[1], "size") /\ Absent(PayloadProblemList[1], "size")
    /\ result.problems[1].size = "D2"

-----------------------------------------------------------------------------
(* Zones *)

EntryPoints == {"scrape_forecast", "parse_page_text", "parse_forecast"}

\* C9: no entry point returns a Forecast for a zone that is not northwest or
\* southeast: scrape_forecast, parse_page_text and parse_forecast return None for it.
C9_UnknownZoneRejected ==
    pc = "done" /\ entry \in EntryPoints /\ zone \notin FORECAST_ZONES => result = None

\* scrape_forecast called with an unknown zone returns None and has parsed nothing
C9_Witness ==
    /\ pc = "done" /\ entry = "scrape_forecast"
    /\ zone \notin FORECAST_ZONES
    /\ result = None
    /\ Idle

-----------------------------------------------------------------------------
(* The aspect/elevation rose *)

RoseShape(rose) ==
    /\ DOMAIN rose = Aspects
    /\ \A a \in Aspects :
          /\ DOMAIN rose[a] = Elevations
          /\ \A e \in Elevations : rose[a][e] \in BOOLEAN

\* C10: the rose of every problem made by parse_page_text, parse_forecast and
\* extract_forecast_data, and the rose parse_locations_to_rose returns for a list of
\* texts, has the 8 keys N, NE, E, SE, S, SW, W, NW, each with the 3 boolean fields
\* alpine, treeline, below_treeline.
C10_RoseShape ==
    pc = "done" =>
        /\ entry = "parse_locations_to_rose" => RoseShape(result)
        /\ entry \in EntryPoints \cup {"extract_forecast_data"} /\ result # None =>
              \A k \in DOMAIN result.problems :
                  RoseShape(result.problems[k].aspect_elevation_rose)

\* a list with a malformed entry and two good ones for two aspects: the cells of the
\* good ones are set and the keys are the 8
C10_Witness ==
    /\ pc = "done" /\ entry = "parse_locations_to_rose"
    /\ Len(args.locations.val) = 2
    /\ result["N"]["alpine"] /\ result["NE"]["treeline"]
    /\ ~result["N"]["treeline"]
    /\ RoseShape(result)

-----------------------------------------------------------------------------
(* Problem sizes *)

\* the problems of the result of an entry point that returns problems
Extractors == EntryPoints \cup {"extract_forecast_data"}
ResultProblems ==
    IF pc = "done" /\ entry \in Extractors /\ result # None THEN result.problems ELSE <<>>

\* D<n>, D<n>-D<m> and D<n>-<m> with n <= m in 1..5
SizeForms ==
    { "D" \o ToString(n) : n \in 1..5 }
    \cup { "D" \o ToString(n) \o "-D" \o ToString(m) : n \in 1..5, m \in 1..5 }
    \cup { "D" \o ToString(n) \o "-" \o ToString(m) : n \in 1..5, m \in 1..5 }

SizeInOrder(size) ==
    \A n \in 1..5, m \in 1..5 :
        size \in {"D" \o ToString(n) \o "-D" \o ToString(m),
                  "D" \o ToString(n) \o "-" \o ToString(m)} => n <= m

\* C11: the size of every problem made by parse_page_text, parse_forecast and
\* extract_forecast_data is D<n>, D<n>-D<m> or D<n>-<m> with n <= m in 1..5 (the
\* default D2 is one of them).
C11_SizeForm ==
    \A k \in DOMAIN ResultProblems :
        /\ ResultProblems[k].size \in SizeForms
        /\ SizeInOrder(ResultProblems[k].size)

\* a problem text with the size D2-D3, and a payload size of ["1", "2"]: the sizes
\* made are D2-D3 and D1-2
C11_Witness ==
    \/ /\ pc = "done" /\ entry = "extract_forecast_data"
       /\ Len(ResultProblems) = 1
       /\ \E k \in DOMAIN ValueOf(args.elements[1]) :
              ValueOf(args.elements[1])[k] = S("D2-D3")
       /\ ResultProblems[1].size = "D2-D3"
    \/ /\ ApiDone /\ Len(ResultProblems) = 1
       /\ PayloadProblemList[1] = BaseProblem
       /\ ResultProblems[1].size = "D1-2"

-----------------------------------------------------------------------------
(* Problem numbers *)

\* the problems of a Forecast made from a page or from a payload
ForecastProblems ==
    IF pc = "done" /\ entry \in EntryPoints /\ result # None THEN result.problems ELSE <<>>

\* C12: the problems of every Forecast made by parse_page_text and parse_forecast are
\* numbered 1, 2, ..., n in list order, whatever numbers the markers of the text
\* carry.
C12_NumberedInOrder ==
    \A k \in DOMAIN ForecastProblems : ForecastProblems[k].problem_number = k

\* a payload with two problems, numbered 1 and 2
C12_Witness ==
    /\ ApiDone
    /\ Len(PayloadProblemList) = 2
    /\ Len(ForecastProblems) = 2
    /\ ForecastProblems[1].problem_number = 1
    /\ ForecastProblems[2].problem_number = 2

-----------------------------------------------------------------------------
(* Problem types *)

ProblemTypes ==
    { "persistent_slab", "wind_slab", "storm_slab", "wet_slab", "loose_dry", "loose_wet",
      "cornice", "glide", "unknown" }

\* C13: the problem_type of every problem made by parse_page_text and parse_forecast
\* is one of persistent_slab, wind_slab, storm_slab, wet_slab, loose_dry, loose_wet,
\* cornice, glide, unknown.
C13_TypeEnumeration ==
    \A k \in DOMAIN ForecastProblems : ForecastProblems[k].problem_type \in ProblemTypes

\* the payload name "Wind Slab" gives wind_slab, and a name that is missing unknown
C13_Witness ==
    /\ ApiDone
    /\ Len(ForecastProblems) = 2
    /\ Get(PayloadProblemList[1], "name", JNull) = JStr(<<T("wind"), T("slab")>>)
    /\ ForecastProblems[1].problem_type = "wind_slab"
    /\ ~HasKey(PayloadProblemList[2], "name")
    /\ ForecastProblems[2].problem_type = "unknown"

-----------------------------------------------------------------------------
(* Danger values *)

\* a danger value of a Forecast is 0 or one of 1..5; the payload paths carry the
\* values as decoded
DangerInRange(x) == x \in 0..5
JsonDangerInRange(x) == x.t = "int" /\ x.val \in 0..5

ForecastDangersInRange(f) ==
    /\ DangerInRange(f.danger_alpine)
    /\ DangerInRange(f.danger_treeline)
    /\ DangerInRange(f.danger_below_treeline)
JsonForecastDangersInRange(f) ==
    /\ JsonDangerInRange(f.danger_alpine)
    /\ JsonDangerInRange(f.danger_treeline)
    /\ JsonDangerInRange(f.danger_below_treeline)

FetchDone == pc = "done" /\ entry = "fetch_forecasts"

\* C14: in every Forecast made by parse_page_text, parse_forecast and
\* fetch_forecasts each of danger_alpine, danger_treeline and danger_below_treeline
\* is an integer of 1..5 or 0.
C14_DangerRange ==
    /\ pc = "done" /\ entry \in {"parse_page_text", "scrape_forecast"} /\ result # None =>
          ForecastDangersInRange(result)
    /\ ApiDone /\ result # None => JsonForecastDangersInRange(result)
    /\ FetchDone => \A k \in DOMAIN result : JsonForecastDangersInRange(result[k])

\* a page whose near-treeline rating is "3 - Considerable", a payload whose current
\* day is 3, 2, 1 and a feature of level 3: the values are the ones given
C14_Witness ==
    \/ /\ ParseDone /\ lines = <<HeadDanger, MarkAbove, Rating(3)>>
       /\ result.danger_alpine = 3 /\ ForecastDangersInRange(result)
    \/ /\ ApiDone /\ result # None
       /\ Get(args.data, "danger", JNull) = JList(<<CurrentDay>>)
       /\ result.danger_alpine = JInt(3) /\ JsonForecastDangersInRange(result)
    \/ /\ FetchDone /\ Len(result) = 1
       /\ result[1].danger_level = JInt(3)
       /\ result[1].danger_below_treeline = JInt(2) /\ JsonForecastDangersInRange(result[1])

-----------------------------------------------------------------------------
(* Problem details *)

\* len(details) of the details of a problem, 0 for None; parse_forecast carries the
\* caption as decoded
DetailsLen(details) ==
    IF details = None THEN 0
    ELSE IF entry = "parse_forecast"
    THEN (IF details.t = "str" THEN LineLen(details.val) ELSE 0)
    ELSE LineLen(details)

\* C16: the details of every problem made by parse_page_text, parse_forecast and
\* extract_forecast_data are None or a text of at most 1000 characters.
C16_DetailsCapped ==
    \A k \in DOMAIN ResultProblems : DetailsLen(ResultProblems[k].details) <= DetailCap

\* a page whose descriptive line has more than 1000 characters: the details are its
\* first 1000
C16_Witness ==
    /\ ParseDone
    /\ lines = <<Problem1, LongLine>>
    /\ LineLen(lines[2]) > DetailCap
    /\ DetailsLen(ResultProblems[1].details) = DetailCap

-----------------------------------------------------------------------------
(* cbac_scraper.py: the trend of the daily observation counts *)

RECURSIVE SumCounts(_, _, _)
\* sum(counts[from - 1:to]) of the counts c[1] of the pairs
SumCounts(daily_counts, from, to) ==
    IF from > to THEN 0
    ELSE daily_counts[from][2] + SumCounts(daily_counts, from + 1, to)

\* calculate_trend of cbac_scraper.py with the halves cut after the middle point
aggregate_trend_late_cut(daily_counts) ==
    IF Len(daily_counts) < 3 THEN "insufficient_data"
    ELSE LET half        == (Len(daily_counts) + 1) \div 2
             first_half  == SumCounts(daily_counts, 1, half)
             second_half == SumCounts(daily_counts, half + 1, Len(daily_counts))
         IN  IF 2 * second_half > 3 * first_half THEN "increasing"
             ELSE IF 2 * first_half > 3 * second_half THEN "decreasing"
             ELSE "stable"

\* calculate_trend of cbac_scraper.py, lines 482-498; x > y * 1.5 on integers is
\* 2 * x > 3 * y
aggregate_calculate_trend(daily_counts) ==
    IF Len(daily_counts) < 3 THEN "insufficient_data"
    ELSE LET half        == Len(daily_counts) \div 2
             first_half  == SumCounts(daily_counts, 1, half)
             second_half == SumCounts(daily_counts, half + 1, Len(daily_counts))
         IN  IF 2 * second_half > 3 * first_half THEN "increasing"
             ELSE IF 2 * first_half > 3 * second_half THEN "decreasing"
             ELSE "stable"

\* the call of calculate_trend on the daily counts of the state
AggregateTrend ==
    /\ pc = "aggregate_calculate_trend"
    /\ result' = aggregate_calculate_trend(args.daily_counts)
    /\ pc' = "done"
    /\ UNCHANGED <<store, entry, zone, args, parse_vars>>

\* up to MaxPoints days, numbered in order, each with a count
MaxPoints == 5
DayCounts == {0, 1, 2, 3, 5, 6}
DailyCounts(n) == { [k \in 1..n |-> <<k, c[k]>>] : c \in [1..n -> DayCounts] }

InitCounts ==
    /\ pc = "aggregate_calculate_trend"
    /\ entry = "aggregate_calculate_trend"
    /\ NoParse
    /\ \E n \in 0..MaxPoints : args \in [daily_counts : DailyCounts(n)]

NextCounts == AggregateTrend

SpecCounts == InitCounts /\ [][NextCounts]_vars

CountsDone == pc = "done" /\ entry = "aggregate_calculate_trend"

\* the sums of the first floor(n/2) counts and of the rest
FirstHalfSum ==
    LET n == Len(args.daily_counts)
        half == {k \in 1..n : k <= n \div 2}
        f[ks \in SUBSET half] ==
            IF ks = {} THEN 0
            ELSE LET k == CHOOSE j \in ks : TRUE IN args.daily_counts[k][2] + f[ks \ {k}]
    IN  f[half]
SecondHalfSum ==
    LET n == Len(args.daily_counts)
        half == {k \in 1..n : k > n \div 2}
        f[ks \in SUBSET half] ==
            IF ks = {} THEN 0
            ELSE LET k == CHOOSE j \in ks : TRUE IN args.daily_counts[k][2] + f[ks \ {k}]
    IN  f[half]

\* C17: for fewer than 3 points calculate_trend returns insufficient_data; else it
\* returns increasing iff the second-half sum is more than 1.5 times the first-half
\* sum, decreasing iff the first-half sum is more than 1.5 times the second-half
\* sum, and stable otherwise; the two conditions never hold together.
C17_AggregateTrend ==
    CountsDone =>
        /\ Len(args.daily_counts) < 3 <=> result = "insufficient_data"
        /\ Len(args.daily_counts) >= 3 =>
              /\ result = "increasing" <=> 2 * SecondHalfSum > 3 * FirstHalfSum
              /\ result = "decreasing" <=> 2 * FirstHalfSum > 3 * SecondHalfSum
              /\ result = "stable" <=>
                    /\ 2 * SecondHalfSum <= 3 * FirstHalfSum
                    /\ 2 * FirstHalfSum <= 3 * SecondHalfSum
              /\ ~(2 * SecondHalfSum > 3 * FirstHalfSum /\ 2 * FirstHalfSum > 3 * SecondHalfSum)

\* the counts 1, 1, 1, 5, 6: 2 against 12, increasing
C17_Witness ==
    /\ CountsDone
    /\ Len(args.daily_counts) = 5
    /\ [k \in 1..5 |-> args.daily_counts[k][2]] = <<1, 1, 1, 5, 6>>
    /\ FirstHalfSum = 2 /\ SecondHalfSum = 12
    /\ result = "increasing"

-----------------------------------------------------------------------------
(* The danger region *)

\* the value of band b was read from a rating line of the danger region: one of
\* the 2 lines after a marker of the band in the region, itself in the region
ReadInsideRegion(ls, b, value) ==
    \E m \in RegionMarkers(ls)[b] :
        \E j \in RatingsAfter(ls, m) :
            /\ j \in DangerRegion(ls)
            /\ parse_danger_level(ls[j]) = value

\* C18: every danger value that parse_page_text extracts is read from a rating line
\* inside the danger region, after the AVALANCHE DANGER heading and before the first
\* closing heading; the look-ahead from a marker at the end of the region takes no
\* digit from the legend.
C18_ReadInsideRegion ==
    ParseDone =>
        \A b \in Bands :
            \/ BandValue(result, b) = BandDefault(b)
            \/ ReadInsideRegion(lines, b, BandValue(result, b))

\* the near-treeline marker, a blank line, "4 - High" and then the legend: the
\* value is read 2 lines after the marker, inside the region
C18_Witness ==
    /\ ParseDone
    /\ \E m \in RegionMarkers(lines)["treeline"] :
          /\ m + 3 <= Len(lines)
          /\ lines[m + 1] = Blank
          /\ lines[m + 2] = RatingDash(4)
          /\ IsClosingHeading(lines[m + 3])
    /\ result.danger_treeline = 4
    /\ ReadInsideRegion(lines, "treeline", 4)

\* the scan is about to read line n with the danger region open
RegionOpenAt(n) ==
    /\ pc = "danger"
    /\ i = n /\ n <= Len(lines)
    /\ in_danger_section /\ ~danger_section_done

\* C19: while the danger region is open, every line that contains DANGER SCALE or
\* AVALANCHE PROBLEMS closes it, a heading such as "Avalanche Danger Scale" that
\* also contains AVALANCHE DANGER included, and the line sets no danger value.
C19_ClosingLineCloses ==
    [][RegionOpenAt(i) /\ IsClosingHeading(lines[i]) =>
           /\ danger_section_done' /\ ~in_danger_section'
           /\ UNCHANGED <<danger_alpine, danger_treeline, danger_btl>>]_vars

\* "DANGER SCALE" read with the region open has closed it, and a band marker with
\* its rating follows the heading
C19_Witness ==
    /\ pc = "danger"
    /\ i > 2 /\ i + 1 <= Len(lines)
    /\ IsDangerHeading(lines[1])
    /\ \A n \in 2..(i - 2) : ~IsClosingHeading(lines[n])
    /\ lines[i - 1] = HeadScale
    /\ BandOf(lines[i]) # "none" /\ RatingMatch(lines[i + 1])
    /\ danger_section_done /\ ~in_danger_section

\* C20: once the first closing heading has closed the danger region it is never
\* reopened: no later line, a second AVALANCHE DANGER heading followed by markers
\* and rating lines included, changes danger_alpine, danger_treeline or
\* danger_btl, and the region stays closed.
C20_NeverReopened ==
    [][danger_section_done =>
           /\ danger_section_done'
           /\ UNCHANGED <<danger_alpine, danger_treeline, danger_btl>>]_vars

\* heading, DANGER SCALE, a second heading, then the near-treeline marker with
\* "3 - Considerable" 2 lines after it: the value is still the default 2
C20_Witness ==
    /\ ParseDone
    /\ \E h, k, g, m \in 1..Len(lines) :
          /\ h < k /\ k < g /\ g < m
          /\ IsDangerHeading(lines[h])
          /\ ~IsDangerHeading(lines[k]) /\ IsClosingHeading(lines[k])
          /\ IsDangerHeading(lines[g])
          /\ BandOf(lines[m]) = "treeline"
          /\ RatingsAfter(lines, m) # {}
          /\ \A j \in RatingsAfter(lines, m) :
                parse_danger_level(lines[j]) # result.danger_treeline
    /\ result.danger_treeline = DefaultTreeline

-----------------------------------------------------------------------------
(* The overall danger *)

SaveDone == pc = "done" /\ entry = "save_forecast"

\* danger_level of a record is the largest of its three elevation dangers
OverallIsMax(record) ==
    record.danger_level.val = Max3(record.danger_alpine.val, record.danger_treeline.val,
                                   record.danger_below_treeline.val)

\* the rows of forecasts that the call of save_forecast wrote
WrittenRows ==
    IF result = None THEN {}
    ELSE {k \in DOMAIN store.forecasts : store.forecasts[k].id = ValueOf(result)}

\* C15: the row that save_forecast writes, and every Forecast that fetch_forecasts
\* builds, whatever the danger_level of the payload, has a danger_level equal to
\* max(danger_alpine, danger_treeline, danger_below_treeline).
C15_OverallIsMax ==
    /\ SaveDone => \A k \in WrittenRows : OverallIsMax(store.forecasts[k])
    /\ FetchDone => \A k \in DOMAIN result : OverallIsMax(result[k])

\* save_forecast has written a row whose three dangers differ and whose
\* danger_level is the largest of them, and fetch_forecasts has built a Forecast
\* of a payload danger_level of 3, with 3, 3 and 2 for the elevations
C15_Witness ==
    \/ /\ SaveDone
       /\ \E k \in WrittenRows :
             /\ store.forecasts[k].danger_alpine = JInt(4)
             /\ store.forecasts[k].danger_below_treeline = JInt(2)
             /\ store.forecasts[k].danger_level = JInt(4)
             /\ OverallIsMax(store.forecasts[k])
    \/ /\ FetchDone
       /\ \E k \in DOMAIN result :
             /\ result[k].danger_level = JInt(3)
             /\ result[k].danger_below_treeline = JInt(2)
             /\ OverallIsMax(result[k])

-----------------------------------------------------------------------------
(* The type of a problem *)

\* the rules in their order: the words a type text has to contain, and the type
TypeRules ==
    << <<{"persistent", "slab"}, "persistent_slab">>, <<{"wind", "slab"}, "wind_slab">>,
       <<{"storm", "slab"}, "storm_slab">>, <<{"wet", "slab"}, "wet_slab">>,
       <<{"loose", "dry"}, "loose_dry">>, <<{"loose", "wet"}, "loose_wet">>,
       <<{"cornice"}, "cornice">>, <<{"glide"}, "glide">>,
       <<{"slab"}, "persistent_slab">> >>

\* the type of the first rule all of whose words are in the text
FirstRuleType(text) ==
    LET hits == {n \in 1..Len(TypeRules) :
                    \A w \in TypeRules[n][1] : Contains(LineLower(text), <<L(w)>>)}
    IN  IF hits = {} THEN "unknown" ELSE TypeRules[SetMin(hits)][2]

\* line j can give the type: it is not empty, is no PROBLEM TYPE label and has one
\* of the four words
TypeCandidate(line) ==
    /\ line # <<>>
    /\ ~Contains(LineUpper(line), <<U("problem"), U("type")>>)
    /\ \E w \in {"slab", "loose", "cornice", "glide"} : Contains(LineLower(line), <<L(w)>>)

\* the text the rules are applied to for the marker at line m
TypeTextOf(ls, m) ==
    LET js == {j \in (m + 1)..(m + 4) : j <= Len(ls) /\ TypeCandidate(ls[j])}
    IN  IF ProblemTypeText(ls[m]) # <<>> THEN ProblemTypeText(ls[m])
        ELSE IF js = {} THEN <<>>
        ELSE ls[SetMin(js)]

\* C21: the type of a problem is that of the first matching rule in the order
\* persistent+slab, wind+slab, storm+slab, wet+slab, loose+dry, loose+wet, cornice,
\* glide, slab alone (persistent_slab), else unknown, applied to the inline type
\* text of the PROBLEM line and, only when that is empty, to the first of the next 4
\* lines that is not empty, is no PROBLEM TYPE label and has one of slab, loose,
\* cornice and glide.
C21_FirstMatchingRule ==
    ParseDone =>
        \A m \in 1..Len(lines) :
            ProblemMatch(lines[m]) =>
                ProblemOf(m).problem_type = FirstRuleType(TypeTextOf(lines, m))

\* "PROBLEM #3", the label, an empty line, a short line and "Persistent Wind
\* Slab" on the fourth line after the marker: two rules match, the first wins
C21_Witness ==
    /\ ParseDone
    /\ Len(lines) >= 5
    /\ lines[1] = Problem3
    /\ lines[2] = LabelLine /\ lines[3] = Blank /\ lines[4] = ShortLine
    /\ lines[5] = <<T("persistent"), T("wind"), T("slab")>>
    /\ ProblemOf(1).problem_type = "persistent_slab"

-----------------------------------------------------------------------------
(* The details of a problem *)

\* the line of the first PROBLEM marker after line m, the line after the last
\* line when there is none
NextMarker(ls, m) ==
    LET ns == {n \in (m + 1)..Len(ls) : ProblemMatch(ls[n])}
    IN  IF ns = {} THEN Len(ls) + 1 ELSE SetMin(ns)

\* C22: the details of a problem are built only from the lines between its own
\* PROBLEM marker and the next one: they are what they would be if the text ended
\* before the next marker, whatever else the marker line contains.
C22_DetailsStopAtNextMarker ==
    ParseDone =>
        \A m \in 1..Len(lines) :
            ProblemMatch(lines[m]) =>
                ProblemOf(m).details
                    = ProblemDetails(SubSeq(lines, 1, NextMarker(lines, m) - 1), m)

\* "PROBLEM #1: Persistent Slab", its descriptive line, "PROBLEM #2: Wind Slab"
\* and a line of more than 20 characters: the details are the descriptive line
C22_Witness ==
    /\ ParseDone
    /\ lines = <<Problem1, DescPlain, Problem2, MoreLine>>
    /\ ProblemOf(1).details = DescPlain
    /\ ProblemOf(3).details = None

-----------------------------------------------------------------------------
(* The bottom line and the discussion *)

RECURSIVE ExtendedUntilStop(_, _, _)
\* text, extended by the lines from line k on up to the first line that is short
\* or heading-like
ExtendedUntilStop(ls, k, text) ==
    IF k > Len(ls) \/ LineLen(ls[k]) <= BottomMoreLen \/ IsHeadingLike(ls[k])
    THEN text
    ELSE ExtendedUntilStop(ls, k + 1, text \o ls[k])

\* the first line longer than BottomFirstLen after the first heading, extended
StatedBottomLine(ls) ==
    LET h  == FirstOf({g \in 1..Len(ls) : IsBottomLineHeading(ls[g])})
        js == {j \in (h + 1)..Len(ls) : LineLen(ls[j]) > BottomFirstLen}
    IN  IF h = 0 \/ js = {} THEN DefaultBottomLine
        ELSE ExtendedUntilStop(ls, SetMin(js) + 1, ls[SetMin(js)])

\* C23: the bottom line is the first line longer than 30 characters after the first
\* BOTTOM LINE heading, extended by the directly following lines longer than 20
\* characters up to the first line that is short or heading-like: no line after a
\* heading-like line is appended.
C23_BottomLineStopsAtHeadingLike ==
    ParseDone /\ BottomLineFound(lines) => result.bottom_line = StatedBottomLine(lines)

\* the extension stops at a short line: the long line after it is not appended
C23_Witness ==
    /\ ParseDone
    /\ lines = <<HeadBottomLine, DescPlain, MoreLine, ShortLine, MoreLine>>
    /\ result.bottom_line = DescPlain \o MoreLine

\* the first line longer than DiscussionLineLen after the first heading and before
\* the next section
StatedDiscussion(ls) ==
    LET h     == FirstOf({g \in 1..Len(ls) : IsDiscussionHeading(ls[g])})
        stops == {g \in (h + 1)..Len(ls) : IsDiscussionStop(ls[g])}
        last  == IF stops = {} THEN Len(ls) ELSE SetMin(stops) - 1
        js    == {j \in (h + 1)..last : LineLen(ls[j]) > DiscussionLineLen}
    IN  IF h = 0 \/ js = {} THEN DefaultDiscussion ELSE ls[SetMin(js)]

\* C24: the discussion is the first line longer than 20 characters that follows the
\* FORECAST DISCUSSION heading, and the placeholder when there is none; later long
\* lines of the section are not part of it.
C24_DiscussionIsFirstLongLine ==
    ParseDone /\ DiscussionFound(lines) => result.discussion = StatedDiscussion(lines)

\* a short line and then a long one after the heading: the long line is the
\* discussion
C24_Witness ==
    /\ ParseDone
    /\ lines = <<HeadDiscussion, ShortLine, DescPlain>>
    /\ result.discussion = DescPlain

-----------------------------------------------------------------------------
(* save_to_supabase.py: the two extractors as entry points *)

ExtractKeyMessage ==
    /\ pc = "extract_key_message"
    /\ result' = extract_key_message(args.bottom_line, args.discussion)
    /\ pc' = "done"
    /\ UNCHANGED <<entry, zone, args, store, parse_vars>>

ExtractTravelAdvice ==
    /\ pc = "extract_travel_advice"
    /\ result' = extract_travel_advice(args.bottom_line, args.discussion)
    /\ pc' = "done"
    /\ UNCHANGED <<entry, zone, args, store, parse_vars>>

\* "Do not go", "Stay off slopes", "Good riding today", "Best snow",
\* "The safest terrain is low", "Avoid it all", "Avoid", a sentence of 30
\* characters and one of more than AdviceCap characters
DoNotGo    == <<T("do"), L("not"), L("go")>>
StayOff    == <<T("stay"), L("off"), L("slopes")>>
GoodRiding == <<T("good"), L("riding"), L("today")>>
BestSnow   == <<T("best"), L("snow")>>
SafestLow  == <<T("the"), L("safest"), L("terrain"), L("is"), L("low")>>
AvoidIt    == <<T("avoid"), L("it"), L("all")>>
AvoidAlone == <<T("avoid")>>
Plain30    == <<T("good"), <<"slopes", "L", KeyPlainLen - 5>>>>
AvoidLong  == <<T("avoid"), <<"slopes", "L", AdviceCap + 100>>>>

SentenceBodies ==
    { DoNotGo, StayOff, GoodRiding, BestSnow, SafestLow, AvoidIt, AvoidAlone, Plain30,
      AvoidLong, DescPlain }
\* a sentence and its end
SentenceUnits ==
    { body \o <<S(".")>> : body \in SentenceBodies }
        \cup { DoNotGo \o <<S("!")>>, DescPlain \o <<S("!")>> }

RECURSIVE Flatten(_)
Flatten(seqs) == IF seqs = <<>> THEN <<>> ELSE Head(seqs) \o Flatten(Tail(seqs))

MaxAdviceUnits == 2
AdviceBottomLines == { Flatten(us) : us \in SeqsUpTo(SentenceUnits, MaxAdviceUnits) }
\* nothing, a sentence, or a sentence without its end
AdviceDiscussions ==
    {<<>>, GoodRiding, AvoidIt, DescPlain}
        \cup { body \o <<S(".")>> : body \in {GoodRiding, StayOff, SafestLow, AvoidLong} }

InitAdvice ==
    /\ entry \in {"extract_key_message", "extract_travel_advice"}
    /\ pc = entry
    /\ args \in [bottom_line : AdviceBottomLines, discussion : AdviceDiscussions]
    /\ NoParse

NextAdvice == ExtractKeyMessage \/ ExtractTravelAdvice

SpecAdvice == InitAdvice /\ [][NextAdvice]_vars

KeyMessageDone == entry = "extract_key_message" /\ pc = "done"
AdviceDone     == entry = "extract_travel_advice" /\ pc = "done"

\* C25: extract_key_message returns the first sentence of at least 15 characters
\* that has an actionable pattern, in preference to any earlier sentence without
\* one; only when no sentence has one, the first sentence longer than 30
\* characters; never more than 300 characters, and None when no sentence
\* qualifies.
C25_ActionableSentenceFirst ==
    KeyMessageDone =>
        LET sentences == Sentences(CombinedText(args.bottom_line, args.discussion))
            actionable(k) == /\ LineLen(sentences[k]) >= 15
                             /\ KeyPatternFound(LineLower(sentences[k]))
            long(k) == LineLen(sentences[k]) > 30
            ks == 1..Len(sentences)
        IN  /\ \A k \in ks :
                  actionable(k) /\ (\A g \in 1..(k - 1) : ~actionable(g))
                      => result = Some(TakeChars(sentences[k], 300))
            /\ \A k \in ks :
                  /\ \A g \in ks : ~actionable(g)
                  /\ long(k) /\ \A g \in 1..(k - 1) : ~long(g)
                  => result = Some(TakeChars(sentences[k], 300))
            /\ (\A k \in ks : ~actionable(k) /\ ~long(k)) => result = None
            /\ result # None => LineLen(ValueOf(result)) <= 300

\* "Buried weak layers ... today. Stay off slopes.": the second sentence is the
\* key message, although the first is longer than 30 characters
C25_Witness ==
    /\ KeyMessageDone
    /\ args.bottom_line = DescPlain \o <<S(".")>> \o StayOff \o <<S(".")>>
    /\ args.discussion = <<>>
    /\ result = Some(StayOff)

\* the place of the first period of a text, 0 when it has none
FirstPeriod(text) ==
    LET ds == {d \in 1..Len(text) : text[d] = S(".")}
    IN  IF ds = {} THEN 0 ELSE SetMin(ds)

\* C26: extract_travel_advice returns the match of the first pattern of its list
\* that matches anywhere in the text, even when a later pattern matches earlier in
\* the text; the result ends at the first '.' after the start of the match, has at
\* most 300 characters, and is None when no pattern matches.
C26_FirstPatternUpToPeriod ==
    AdviceDone =>
        LET text == CombinedText(args.bottom_line, args.discussion)
            hits == {n \in 1..Len(travel_patterns) :
                        PatternMatch(travel_patterns[n], text) # None}
            best == BestRidingMatch(text) # None
            r    == ValueOf(result)
        IN  /\ result = None <=> (hits = {} /\ ~best)
            /\ result # None =>
                  /\ LineLen(r) <= 300
                  /\ hits # {} => OccursAt(travel_patterns[SetMin(hits)], LineLower(r), 1)
                  /\ hits = {} => InWord(L("best"), LineLower(r)[1])
                  /\ LineLen(r) < 300 => FirstPeriod(r) = Len(r)

\* "Avoid it all. The safest terrain is low.": the first pattern of the list wins,
\* although the third matches earlier in the text
C26_Witness ==
    /\ AdviceDone
    /\ args.bottom_line = AvoidIt \o <<S(".")>> \o SafestLow \o <<S(".")>>
    /\ args.discussion = <<>>
    /\ result = Some(SafestLow \o <<S(".")>>)

-----------------------------------------------------------------------------
(* The cells of the rose *)

\* the entry names the cell: its first word, whatever its case, is the word of the
\* aspect and its second the word of the elevation
NamesCell(loc, a, e) ==
    /\ Len(loc) >= 2
    /\ \E w \in DOMAIN ASPECT_MAP : loc[1][1] = w /\ ASPECT_MAP[w] = a
    /\ \E w \in DOMAIN ELEVATION_MAP : loc[2][1] = w /\ ELEVATION_MAP[w] = e

\* C27: parse_locations_to_rose sets the cell of an aspect and an elevation if and
\* only if some entry of the list has a first word for the aspect and a second word
\* for the elevation, whatever their case; entries with fewer than 2 words or with
\* other words change nothing, and neither the order nor the repetition of the
\* entries matters.
C27_CellIffNamed ==
    pc = "done" /\ entry = "parse_locations_to_rose" /\ args.locations.t = "list" =>
        \A a \in Aspects, e \in Elevations :
            result[a][e] <=>
                \E k \in DOMAIN args.locations.val :
                    NamesCell(args.locations.val[k].val, a, e)

\* "WEST Upper" and "up lower": the cell of W and alpine is set and no other
C27_Witness ==
    /\ pc = "done" /\ entry = "parse_locations_to_rose"
    /\ args.locations
         = JList(<<JStr(<<U("west"), T("upper")>>), JStr(<<L("up"), L("lower")>>)>>)
    /\ result["W"]["alpine"]
    /\ \A a \in Aspects, e \in Elevations : result[a][e] => a = "W" /\ e = "alpine"

-----------------------------------------------------------------------------
(* The forecasts of a zone *)

\* a day with the rating 0 in all bands, and one with it in the alpine only
EmptyDay ==
    JDict([valid_day |-> JStr(<<L("current")>>), upper |-> JInt(0), middle |-> JInt(0),
           lower |-> JInt(0)])
HalfDay ==
    JDict([valid_day |-> JStr(<<L("current")>>), upper |-> JInt(0), middle |-> JInt(2),
           lower |-> JInt(1)])

\* the products of the response: of a day and an hour, rated or empty, of the zone
\* or of the other one, with or without an id, and with a payload that can be
\* fetched or not
ProductKind(d, early, day, z, id, fetched) ==
    [d |-> d, early |-> early, day |-> day, z |-> z, id |-> id, fetched |-> fetched]
ProductKinds ==
    { ProductKind(1, TRUE, CurrentDay, "northwest", TRUE, TRUE),
      ProductKind(1, FALSE, CurrentDay, "northwest", TRUE, TRUE),
      ProductKind(2, FALSE, CurrentDay, "northwest", TRUE, TRUE),
      ProductKind(2, FALSE, EmptyDay, "northwest", TRUE, TRUE),
      ProductKind(2, TRUE, HalfDay, "northwest", TRUE, TRUE),
      ProductKind(2, FALSE, CurrentDay, "southeast", TRUE, TRUE),
      ProductKind(2, FALSE, CurrentDay, "northwest", FALSE, TRUE),
      ProductKind(2, FALSE, CurrentDay, "northwest", TRUE, FALSE) }

KindTime(kind) == IF kind.early THEN PublishedEarly(kind.d) ELSE Published(kind.d)

\* product n of the response, and the payload of its id
Product(kind, n) ==
    JDict([ id |-> IF kind.id THEN JInt(n) ELSE Missing,
            published_time |-> JStr(KindTime(kind)),
            forecast_zone |-> JList(<<JDict([zone_id |-> JStr(<<S(ZONES[kind.z])>>)])>>) ])
ProductPayload(kind, n) ==
    IF kind.fetched
    THEN JDict([Payload(JList(<<kind.day>>), JList(<<>>), JStr(AvoidLine)).val EXCEPT
                    !["id"] = JInt(n), !["published_time"] = JStr(KindTime(kind))])
    ELSE None

MaxProducts == 3
MaxDays == 2

InitScrape ==
    /\ entry = "scrape_zone_forecasts" /\ pc = entry
    /\ \E kinds \in SeqsUpTo(ProductKinds, MaxProducts), days \in 0..MaxDays :
          args = [ zone |-> "northwest", days |-> days,
                   data |-> [n \in DOMAIN kinds |-> Product(kinds[n], n)],
                   details |-> [n \in DOMAIN kinds |-> ProductPayload(kinds[n], n)] ]
    /\ NoParse

NextScrape == ScrapeZoneForecasts

SpecScrape == InitScrape /\ [][NextScrape]_vars

ScrapeDone == entry = "scrape_zone_forecasts" /\ pc = "done"

\* product k of the response is of the zone and its payload makes a Forecast that
\* is not empty
IsCandidate(k) ==
    /\ InZone(args.data[k], ZoneId(args.zone))
    /\ ItemForecast(args.data[k], args.zone, args.details) # None
    /\ ~IsEmptyForecast(ItemForecast(args.data[k], args.zone, args.details))

\* C28: scrape_zone_forecasts(zone, days) returns at most days forecasts, of
\* pairwise distinct valid_date, none of them empty (alpine and treeline danger
\* both 0), and each of them is the most recently published of the forecasts of
\* its date that are not empty.
C28_MostRecentPerDate ==
    ScrapeDone =>
        /\ Len(result) <= args.days
        /\ \A m, n \in DOMAIN result : m # n => result[m].valid_date # result[n].valid_date
        /\ \A n \in DOMAIN result : ~IsEmptyForecast(result[n])
        /\ \A n \in DOMAIN result :
              \E k \in DOMAIN args.data :
                  /\ IsCandidate(k)
                  /\ ItemForecast(args.data[k], args.zone, args.details) = result[n]
                  /\ \A j \in DOMAIN args.data :
                        /\ IsCandidate(j)
                        /\ ItemForecast(args.data[j], args.zone, args.details).valid_date
                               = result[n].valid_date
                        => TimeRank(args.data[j]) <= TimeRank(args.data[k])

\* the morning and the afternoon forecast of day 1 and an empty one of day 2, in
\* this order: the afternoon forecast of day 1 is the only one returned
C28_Witness ==
    /\ ScrapeDone
    /\ args.days = 2
    /\ Len(args.data) = 3
    /\ TimeRank(args.data[1]) = 1 /\ TimeRank(args.data[2]) = 2
    /\ TimeRank(args.data[3]) = 4
    /\ IsCandidate(1) /\ IsCandidate(2) /\ ~IsCandidate(3)
    /\ Len(result) = 1
    /\ result[1].forecast_id = JInt(2)
    /\ result[1].valid_date = DateOf(1)

-----------------------------------------------------------------------------
(* save_to_supabase.py: main *)

RECURSIVE ScrapedForecasts(_, _, _, _)
\* lines 413-418: the forecasts of the zones, in the order of the zones
ScrapedForecasts(zones, days, data, details) ==
    IF zones = <<>> THEN <<>>
    ELSE (IF Head(zones) \in DOMAIN ZONES
          THEN scrape_zone_forecasts(Head(zones), days, data, details)
          ELSE <<>>)
         \o ScrapedForecasts(Tail(zones), days, data, details)

\* lines 394-422: the zones are scraped into the list forecasts of main, and main
\* exits when the list is empty
MainScrape ==
    /\ pc = "main"
    /\ LET forecasts == ScrapedForecasts(args.zones, args.days, args.data, args.details)
       IN  /\ args' = [args EXCEPT !.forecasts = forecasts]
           /\ pc' = IF forecasts = <<>> THEN "exit" ELSE "save_forecasts"
    /\ UNCHANGED <<entry, zone, result, store, parse_vars>>

\* lines 436-448, one turn of the loop: the next forecast of the list is saved,
\* and result is the list of the ids returned so far; after the last turn main
\* exits when a save returned no id
SaveNextForecast ==
    /\ pc = "save_forecasts"
    /\ Len(result) < Len(args.forecasts)
    /\ LET saved == save_forecast(store, args.forecasts[Len(result) + 1], args.probe_raises)
       IN  /\ store' = saved.store
           /\ result' = Append(result, saved.id)
           /\ pc' = IF Len(result) + 1 < Len(args.forecasts) THEN pc
                    ELSE IF entry = "main"
                            /\ (saved.id = None \/ \E k \in DOMAIN result : result[k] = None)
                    THEN "exit"
                    ELSE "done"
    /\ UNCHANGED <<entry, zone, args, parse_vars>>

\* the forecasts of a list of saves: of two days, with 0 to 2 problems, one with
\* a danger that is None, and one of the other zone
OneSave(d, day, ps, z) ==
    parse_forecast(DatedPayload(d, JList(<<day>>), JList(ps), JStr(AvoidLine)), z, None)
SavedForecasts ==
    { OneSave(1, CurrentDay, ps, "northwest") :
        ps \in {<<>>, <<BaseProblem>>, <<BaseProblem, BaseProblem>>} }
    \cup { OneSave(2, CurrentDay, <<BaseProblem>>, "northwest"),
           OneSave(1, BareDay, <<BaseProblem>>, "northwest"),
           OneSave(1, CurrentDay, <<BaseProblem>>, "southeast") }

MaxSaves == 3

InitSaves ==
    /\ entry = "save_forecasts" /\ pc = entry
    /\ \E forecasts \in SeqsUpTo(SavedForecasts, MaxSaves) \ {<<>>},
          probe_raises \in BOOLEAN :
          args = [forecasts |-> forecasts, probe_raises |-> probe_raises]
    /\ NoParse

\* the products of a run of main: of two days, rated 3, rated 2 or empty, and one
\* of the other zone
MainKinds ==
    { ProductKind(d, FALSE, day, "northwest", TRUE, TRUE) :
        d \in 1..2, day \in {CurrentDay, HalfDay} }
    \cup { ProductKind(2, TRUE, EmptyDay, "northwest", TRUE, TRUE),
           ProductKind(2, FALSE, CurrentDay, "southeast", TRUE, TRUE) }

InitMain ==
    /\ entry = "main" /\ pc = entry
    /\ \E kinds \in SeqsUpTo(MainKinds, MaxProducts), days \in 1..MaxDays,
          zones \in {<<"northwest">>, <<"central", "southeast", "northwest">>},
          probe_raises \in BOOLEAN :
          args = [ zones |-> zones, days |-> days,
                   data |-> [n \in DOMAIN kinds |-> Product(kinds[n], n)],
                   details |-> [n \in DOMAIN kinds |-> ProductPayload(kinds[n], n)],
                   forecasts |-> <<>>,
                   probe_raises |-> probe_raises ]
    /\ NoParse

NextSaves == SaveNextForecast

SpecSaves == InitSaves /\ [][NextSaves]_vars

NextMain == MainScrape \/ SaveNextForecast

SpecMain == InitMain /\ [][NextMain]_vars

-----------------------------------------------------------------------------
(* The rows of the tables *)

\* the calls of the list made so far that returned an id for the zone and the date
SavedCalls(z, date) ==
    {k \in 1..Len(result) :
        /\ result[k] # None
        /\ args.forecasts[k].zone = z /\ args.forecasts[k].valid_date = date}

\* C29: after any sequence of save_forecast calls the forecasts table has at most
\* one row for a zone and a valid_date, and the rows of avalanche_problems of that
\* row are exactly the problems of the forecast saved last for the zone and the
\* date.
C29_OneRowWithLatestProblems ==
    entry = "save_forecasts" =>
        /\ \A m, n \in DOMAIN store.forecasts :
              /\ store.forecasts[m].zone_id = store.forecasts[n].zone_id
              /\ store.forecasts[m].valid_date = store.forecasts[n].valid_date
              => m = n
        /\ \A k \in 1..Len(result) :
              LET f     == args.forecasts[k]
                  calls == SavedCalls(f.zone, f.valid_date)
                  last  == args.forecasts[SetMax(calls)]
                  rows  == ForecastRows(store, f.zone, f.valid_date)
              IN  calls # {} =>
                    /\ Cardinality(rows) = 1
                    /\ SelectSeq(store.avalanche_problems,
                                 LAMBDA row : row.forecast_id = store.forecasts[SetMin(rows)].id)
                         = [j \in DOMAIN last.problems |->
                               ProblemData(last.problems[j], store.forecasts[SetMin(rows)].id)]

\* day 1 saved with two problems, day 2 saved, and day 1 saved again with one
\* problem: two rows of forecasts, and one problem row for day 1
C29_Witness ==
    /\ entry = "save_forecasts" /\ pc = "done"
    /\ args.forecasts = << OneSave(1, CurrentDay, <<BaseProblem, BaseProblem>>, "northwest"),
                           OneSave(2, CurrentDay, <<BaseProblem>>, "northwest"),
                           OneSave(1, CurrentDay, <<BaseProblem>>, "northwest") >>
    /\ Len(store.forecasts) = 2
    /\ Cardinality(ProblemRows(store, 1)) = 1
    /\ Cardinality(ProblemRows(store, 2)) = 1
    /\ Len(store.avalanche_problems) = 2

-----------------------------------------------------------------------------
(* The trend of a batch *)

\* the forecasts of the batch of main for the zone and day d
BatchOf(z, d) ==
    {k \in DOMAIN args.forecasts :
        args.forecasts[k].zone = z /\ args.forecasts[k].valid_date = DateOf(d)}

\* main has saved its batch, which has a forecast of the zone for day d - 1 and
\* one for day d
BatchSaved(z, d) ==
    /\ entry = "main" /\ pc = "done"
    /\ BatchOf(z, d - 1) # {} /\ BatchOf(z, d) # {}

\* max(danger_alpine, danger_treeline, danger_below_treeline) of a Forecast
LevelOf(forecast) ==
    Max3(forecast.danger_alpine.val, forecast.danger_treeline.val,
         forecast.danger_below_treeline.val)

\* C30: when main saves a batch that has the forecasts of day D - 1 and of day D
\* of a zone to tables that hold neither, the trend stored for day D is
\* calculate_trend of day D against day D - 1 of the batch.
C30_TrendAgainstBatch ==
    \A z \in FORECAST_ZONES, d \in 2..Len(Calendar) :
        BatchSaved(z, d) =>
            LET today     == args.forecasts[SetMin(BatchOf(z, d))]
                yesterday == args.forecasts[SetMin(BatchOf(z, d - 1))]
                row       == store.forecasts[SetMin(ForecastRows(store, z, DateOf(d)))]
            IN  row.trend = calculate_trend(LevelOf(today), Len(today.problems),
                                            Some(LevelOf(yesterday)),
                                            Some(Len(yesterday.problems)),
                                            today.bottom_line, today.discussion)

\* a batch with day 2 rated 3 and day 1 rated 2 is saved: both rows are stored
C30_Witness ==
    /\ BatchSaved("northwest", 2)
    /\ LevelOf(args.forecasts[SetMin(BatchOf("northwest", 2))]) = 3
    /\ LevelOf(args.forecasts[SetMin(BatchOf("northwest", 1))]) = 2
    /\ ForecastRows(store, "northwest", DateOf(1)) # {}
    /\ ForecastRows(store, "northwest", DateOf(2)) # {}

====
